---- MODULE Spec2Model ----
(***************************************************************************)
(* Cross-pod migration of one user's calendar home                         *)
(* (txdav/common/datastore/podding/migration/home_sync.py,                 *)
(* class CrossPodHomeSync).                                                *)
(*                                                                         *)
(* The state is the remote (source) pod's home, the local (destination)    *)
(* pod's store, the directory entry of the migrating user, and one         *)
(* CrossPodHomeSync instance running migrateHere.  Every method decorated  *)
(* with inTransactionWrapper and called without a txn runs in a            *)
(* transaction of its own: its writes are kept (commit) or, when the       *)
(* operation raises, dropped (abort) with the failure delivered to the     *)
(* caller.  A step that calls the remote pod more than once is one action  *)
(* for each remote call, the remote users writing in between; its local    *)
(* writes take effect at the last of them, when the transaction commits.   *)
(*                                                                         *)
(* disableRemoteHome, enableLocalHome and removeRemoteHome are             *)
(* placeholders that raise when called, so a run of migrateHere ends at    *)
(* disableRemoteHome after two sync() passes.                              *)
(*                                                                         *)
(* Spec runs migrateHere while remote users write; SpecCalls has a caller  *)
(* call sync() and linkAttachments() directly against an unchanged remote  *)
(* home, and SpecFinal finalSync() and the three placeholders as well;     *)
(* SpecBatch runs the two batching loops and SpecTxn the transaction       *)
(* wrapper _inTxn, each on its own.  SpecCleanup is Spec with the remote   *)
(* pod's revision cleanup, SpecAttachments is SpecCalls with remote users  *)
(* changing the attachments, SpecRecreate is Spec with a remote user       *)
(* deleting an object and creating a new one under its name,               *)
(* SpecLastWriter has three sync() calls with a remote user writing        *)
(* during the first two,                                                   *)
(* SpecBatchFail is SpecBatch with batches that                            *)
(* may fail, and SpecSteps is the sequence of wrapped steps the callers    *)
(* make, each in the transaction _inTxn gives it.                          *)
(***************************************************************************)
EXTENDS Integers, Sequences, FiniteSets, TLC

(***************************************************************************)
(* Bounds of the model.                                                    *)
(***************************************************************************)
\* how many times migrateHere may be run (a failed run may be re-run)
MaxRuns == 1
\* how many writes remote users make while the migration runs
MaxRemoteWrites == 1
\* how many times sync() and linkAttachments() may be called directly
MaxCalls == 3
\* the longest name list a batching loop is given (more than two windows)
MaxNames == 101
\* how many transactions the calls of one wrapped operation may use
MaxTxns == 3
\* how many writes the remote user makes before the third sync()
MaxUserWrites == 2

\* ids of the calendars of the remote home
RemoteCalIds == {1, 2}
\* calendar object resource names
Names == {"e1", "e2"}
\* content hashes
Md5s == {"x", "y"}
\* ids of the managed attachments of the remote home
RemoteAttIds == {7}

(***************************************************************************)
(* Program constants.                                                      *)
(***************************************************************************)
BATCH_SIZE == 50
\* the window of linkAttachments
LINK_BATCH_SIZE == 50
\* lastSyncToken=None of a mapping not yet synchronised
NoToken == 0
\* the md5 column of a managed attachment row before its data has arrived
NoMd5 == ""
\* owner keys of the local home: "Migrating-<diruid>" and "<diruid>"
diruid == "user42"
migratingUid == "Migrating-" \o diruid

VARIABLES
    \* ---- directory ----
    dirRecord,        \* "missing" | "thisServer" | "otherServer"
    \* ---- remote pod ----
    rhome,            \* conduit.send_home_resource_id gives an id (TRUE) or None
    rcal,             \* remote calendar id -> calendar
    rnextObj,         \* next remote object resource id
    ratt,             \* remote attachment id -> md5, NoMd5 when there is none
    rlinks,           \* remote attachment links [att, obj] (remote ids)
    \* ---- local pod ----
    lhomes,           \* the calendar homes here: [uid, id], uid the owner key
    lhomeMeta,        \* home metadata has been copied from the remote home
    lcals,            \* local calendar id -> calendar
    lnextCal, lnextObj, lnextAtt,
    calRecs,          \* CalendarMigrationRecord rows
    objRecs,          \* CalendarObjectMigrationRecord rows
    attRecs,          \* AttachmentMigrationRecord rows
    latt,             \* local attachment id -> [md5, data]
    llinks,           \* local attachment links [att, obj] (local ids)
    ldelegates,       \* local delegate rows
    lgroups,          \* group directory uid -> local group id
    \* ---- the CrossPodHomeSync instance ----
    pc,               \* the step migrateHere is about to run
    phase,            \* index of the running step of migrateHere, 0 before
    err,              \* the exception migrateHere ended with, and the phase it rose in
    record,           \* self.record
    homeId,           \* self.homeId
    remote_sync_state, local_sync_state, todo, cur,
    changed, deleted, \* what remains of syncCalendar's two name lists
    changed_ids,      \* syncAttachments: local ids whose data is to be read
    links, idmaps,    \* linkAttachments: remaining links, the two id maps
    len_links,        \* what linkAttachments returns, once it is known
    calls,            \* the calls made on the instance directly, migrateHere apart
    entry,            \* the method the caller called: the one the running step returns to
    calendars,        \* getCalendarSyncList: the owned calendars not yet asked their token
    results,          \* getCalendarSyncList: remote id -> token, as far as it was asked
    names_since,      \* findObjectsToSync: what resourceNamesSinceToken gave
    remote_objects,   \* updateBatch: name -> the remote object objectResourcesWithNames gave
    components,       \* updateBatch: the names whose component() is still to be read
    \* ---- history ----
    started, completed,  \* the phases started / completed in this run
    runs,             \* runs of migrateHere so far
    rwrites,          \* remote writes so far
    passDirty,        \* a remote write happened since the running sync() began
    cleanPasses,      \* consecutive successful sync() passes without remote write
    objWrites,        \* calendar-object writes made by the running sync()
    txnCreated,       \* store.newTransaction was called in this run
    \* ---- one batching loop on its own ----
    bpc,              \* the loop that runs, "returned" after it, "off" when none
    bnames,           \* the list of names the loop was given
    remaining,        \* the loop's `remaining`
    windows,          \* the name lists of the batches that committed so far
    battempts,        \* the batches the loop has called so far
    bobjects,         \* the names that have a local object (and its record)
    \* ---- calls of one wrapped operation on their own ----
    tpc,              \* where _inTxn is, "off" when it is not looked at
    tkw,              \* the keyword arguments of the call
    txnLog,           \* the transactions: who made each, its state
    toutcome,         \* how the operation ended: "result" or "error"
    tresult           \* what the caller of _inTxn gets

remoteVars == <<rhome, rcal, rnextObj, ratt, rlinks>>
localVars == <<lhomes, lhomeMeta, lcals, lnextCal, lnextObj, lnextAtt, calRecs,
               objRecs, attRecs, latt, llinks, ldelegates, lgroups>>
calVars == <<lcals, lnextCal, lnextObj, calRecs, objRecs>>
attVars == <<lnextAtt, attRecs, latt, llinks>>
syncVars == <<remote_sync_state, local_sync_state, todo, cur, changed, deleted>>
linkVars == <<links, idmaps>>
histVars == <<started, completed, runs, rwrites, passDirty, cleanPasses, objWrites,
              txnCreated>>
stepVars == <<entry, calendars, results, names_since, remote_objects, components>>
histVarsButWrites == <<started, completed, runs, rwrites, passDirty, cleanPasses,
                       txnCreated>>
batchVars == <<bpc, bnames, remaining, windows, battempts, bobjects>>
txnVars == <<tpc, tkw, txnLog, toutcome, tresult>>
\* the migration itself
homeSyncVars ==
    <<dirRecord, remoteVars, localVars, pc, phase, err, record, homeId, syncVars,
      changed_ids, linkVars, len_links, calls, stepVars, histVars>>
vars == <<homeSyncVars, batchVars, txnVars>>

(***************************************************************************)
(* Helpers.                                                                *)
(***************************************************************************)
None == "None"

MinOf(S) == CHOOSE x \in S : \A y \in S : x <= y

\* a list of the elements of S (the order Python gives a set or dict is fixed
\* per run; the lists built here never depend on it beyond batch boundaries)
RECURSIVE SetToSeq(_)
SetToSeq(S) ==
    IF S = {} THEN <<>>
    ELSE LET x == CHOOSE y \in S : TRUE IN <<x>> \o SetToSeq(S \ {x})

SeqToSet(s) == {s[i] : i \in 1..Len(s)}

\* s[:n] and s[n:]
Take(s, n) == SubSeq(s, 1, IF Len(s) < n THEN Len(s) ELSE n)
Drop(s, n) == SubSeq(s, (IF Len(s) < n THEN Len(s) ELSE n) + 1, Len(s))

Restrict(f, S) == [x \in S |-> f[x]]

(***************************************************************************)
(* The remote home, as the conduit shows it (CalendarHomeExternal and its  *)
(* children).  A remote calendar keeps a revision counter, its sync token; *)
(* every object remembers the revision of its last change, and a deleted   *)
(* object leaves a tombstone.  A deleted calendar keeps its last content   *)
(* in the record (exists = FALSE) so that it can still be compared with.   *)
(* The remote pod cleans its revisions up: the tombstones go, and a token   *)
(* from before the cleanup (below minrev) is no longer valid.               *)
(***************************************************************************)
\* a remote object: `data` is its content, `md5` the hash of that content
NoRObj == [live |-> FALSE, id |-> 0, md5 |-> NoMd5, data |-> NoMd5, rev |-> 0]
NoRCal == [exists |-> FALSE, owned |-> FALSE, token |-> NoToken, minrev |-> 0,
           objs |-> [n \in Names |-> NoRObj]]

\* the locals of a step that reads the remote home more than once, before the
\* step and after it
NoNamesSince == [changed |-> {}, deleted |-> {}]
NoRemoteObjects == [n \in Names |-> NoRObj]
StepLocalsGone ==
    /\ calendars' = <<>> /\ results' = <<>> /\ names_since' = NoNamesSince
    /\ remote_objects' = NoRemoteObjects /\ components' = <<>>
    /\ UNCHANGED entry

\* remote_home.childWithID(id) is None
RemoteChildMissing(c) == ~rcal[c].exists

\* remote_home.loadChildren()
RemoteLoadChildren == {c \in RemoteCalIds : rcal[c].exists}

\* the third value of calendar.resourceNamesSinceToken(token): the token is
\* from before the last revision cleanup
TokenInvalid(cal, token) == token # NoToken /\ token < cal.minrev

\* calendar.resourceNamesSinceToken(token): the names changed and the names
\* deleted after revision `token`; with no token, every name is changed, and
\* so it is with an invalid token, for which no deleted name is known
ChangedSinceToken(cal, token) ==
    IF TokenInvalid(cal, token) THEN {n \in Names : cal.objs[n].live}
    ELSE {n \in Names : cal.objs[n].live /\ cal.objs[n].rev > token}
DeletedSinceToken(cal, token) ==
    IF token = NoToken \/ TokenInvalid(cal, token) THEN {}
    ELSE {n \in Names : ~cal.objs[n].live /\ cal.objs[n].rev > token}

\* calendar.objectResourcesWithNames(names), keyed by name
RemoteObjectsWithNames(cal, names) == {n \in names : cal.objs[n].live}

\* remote_home.getAllAttachments(), keyed by id
RemoteAttachments == {a \in RemoteAttIds : ratt[a] # NoMd5}

(***************************************************************************)
(* The local store: calendars of the migrating home, their objects, and    *)
(* the rows that go when their parent row is deleted (cascade).            *)
(***************************************************************************)
\* a local object: `data` is the content it was given, `md5` the hash the
\* store keeps for it
NoLObj == [id |-> 0, md5 |-> NoMd5, data |-> NoMd5]
NoMeta == 0
EmptyCalendar == [home |-> 0, meta |-> NoMeta, objs |-> [n \in Names |-> NoLObj]]

\* txn.calendarHomeWithUID(uid): the ids of the homes keyed uid, and the id
\* of the home it returns, 0 for None
HomeIds(homes, uid) == {h.id : h \in {x \in homes : x.uid = uid}}
HomeWithUID(homes, uid) ==
    IF HomeIds(homes, uid) = {} THEN 0 ELSE CHOOSE i \in HomeIds(homes, uid) : TRUE

\* local_home.childWithID(id) is None
LocalChildMissing(cals, l) == l \notin DOMAIN cals

\* local_calendar.objectResourcesWithNames(names), keyed by name
LocalObjectsWithNames(cal, names) == {n \in names : cal.objs[n] # NoLObj}

LocalObjectIds(cals) ==
    {cals[l].objs[n].id : l \in DOMAIN cals, n \in Names} \ {NoLObj.id}

\* CalendarObject.purge() of the named objects of local calendar l: the
\* objects go, and with them (cascade) their migration records and links
PurgeObjects(st, l, names) ==
    LET gone == {st.lcals[l].objs[n].id : n \in names} \ {NoLObj.id} IN
    [st EXCEPT
        !.lcals = [st.lcals EXCEPT ![l].objs =
                      [n \in Names |-> IF n \in names THEN NoLObj ELSE @[n]]],
        !.objRecs = {r \in st.objRecs : r.local \notin gone},
        !.llinks = {k \in st.llinks : k.obj \notin gone},
        !.writes = st.writes + Cardinality(gone)]

\* Calendar.purge(): the calendar goes with its objects, and with it
\* (cascade) its CalendarMigrationRecord
PurgeCalendar(st, l) ==
    LET st1 == PurgeObjects(st, l, Names) IN
    [st1 EXCEPT
        !.lcals = Restrict(st1.lcals, DOMAIN st1.lcals \ {l}),
        !.calRecs = {r \in st1.calRecs : r.local # l}]

\* the part of the local store the calendar steps read and write, as one value
CalStore ==
    [lcals |-> lcals, lnextCal |-> lnextCal, lnextObj |-> lnextObj,
     calRecs |-> calRecs, objRecs |-> objRecs, llinks |-> llinks,
     writes |-> objWrites]

(***************************************************************************)
(* migrateHere: the serialized migration.                                  *)
(***************************************************************************)
\* migrateHere with the remote home disabled before the warm sync
MigrateHereStepsDisableEarly ==
    <<"sync", "disableRemoteHome", "sync", "sync", "finalSync",
      "enableLocalHome", "removeRemoteHome">>

MigrateHereSteps ==
    <<"sync", "sync", "disableRemoteHome", "sync", "finalSync",
      "enableLocalHome", "removeRemoteHome">>

\* where a step returns to: migrateHere, or the caller that called a method
\* of the instance directly
ReturnPc == IF entry = "migrateHere" THEN "migrateHere" ELSE "returned"

\* the first step of each phase
EntryPc(step) ==
    CASE step = "sync" -> "loadRecord"
      [] step = "finalSync" -> "getAttachmentLinks"
      [] OTHER -> step

\* finalSync starts with linkAttachments
StartEvents(step) ==
    IF step = "finalSync" THEN <<"finalSync", "linkAttachments">> ELSE <<step>>

\* a failed step whose failure is dropped: migrateHere goes on to its next step
Swallow == "migrateHere"

\* An exception raised in a step is caught nowhere in migrateHere, sync,
\* finalSync, syncCalendarList or syncCalendar: the run ends with it.  A step
\* run by _inTxn in its own transaction hands its caller the Failure, which
\* the caller's yield raises again.
Propagate == "failed"

NoErr == [kind |-> "none", phase |-> 0]
Raised(kind) == [kind |-> kind, phase |-> phase]

NoSyncState == [none |-> TRUE, tok |-> <<>>]
NoIdMaps == [att |-> <<>>, obj |-> <<>>]

\* the steps that run in a transaction _inTxn creates
TxnPcs ==
    {"prepareCalendarHome", "getCalendarSyncList", "getSyncState", "purgeLocal",
     "newCalendar", "syncCalendarMetaData", "findObjectsToSync", "purgeBatch",
     "updateBatch", "updateSyncState", "syncCalendarHomeMetaData",
     "syncAttachmentTable", "syncAttachmentData", "getAttachmentLinks",
     "getAttachmentMappings", "makeAttachmentLinks", "individualDelegateReconcile",
     "groupDelegateReconcile", "externalDelegateReconcile"}

\* the later remote calls of the steps that make more than one
RemoteCallPcs ==
    {"syncToken", "resourceNamesSinceToken", "remoteChanges", "remoteObjects",
     "component"}

\* the steps in which the store, the conduit or the directory may raise
FalliblePcs == TxnPcs \cup RemoteCallPcs \cup {"loadRecord"}

InitObjId(c, n) ==
    LET ns == SetToSeq(Names)
        k == CHOOSE i \in 1..Len(ns) : ns[i] = n
    IN (c - 1) * Cardinality(Names) + k

InitRCal(c, owned, names) ==
    [exists |-> TRUE, owned |-> owned, token |-> 1, minrev |-> 0,
     objs |-> [n \in Names |->
                 IF n \in names
                 THEN [live |-> TRUE, id |-> InitObjId(c, n), md5 |-> "x", data |-> "x",
                       rev |-> 1]
                 ELSE NoRObj]]

\* the remote homes a migration may start from: the first calendar is owned
\* and empty or full, the others are absent, shared-in (not owned) or owned
InitRCals ==
    LET c1 == MinOf(RemoteCalIds) IN
    {f \in [RemoteCalIds -> {NoRCal} \cup
                            {InitRCal(c, o, ns) : c \in RemoteCalIds, o \in BOOLEAN,
                                                  ns \in {{}, Names}}] :
        /\ f[c1] \in {InitRCal(c1, TRUE, {}), InitRCal(c1, TRUE, Names)}
        /\ \A c \in RemoteCalIds \ {c1} :
              f[c] \in {NoRCal, InitRCal(c, FALSE, Names), InitRCal(c, TRUE, Names)}}

RemoteObjIds(rc) ==
    {rc[c].objs[n].id : c \in {d \in RemoteCalIds : rc[d].exists},
                        n \in Names} \ {NoRObj.id}

\* the local pod serves other users too: the resource ids it hands out to
\* the migrated objects are not the ids the objects have on the remote pod
FirstLocalObjId == 11

InitLocal ==
    /\ lhomes = {} /\ lhomeMeta = FALSE
    /\ lcals = <<>> /\ lnextCal = 1 /\ lnextObj = FirstLocalObjId /\ lnextAtt = 1
    /\ calRecs = {} /\ objRecs = {} /\ attRecs = {}
    /\ latt = <<>> /\ llinks = {} /\ ldelegates = {} /\ lgroups = <<>>

InitSync ==
    /\ pc = "idle" /\ phase = 0 /\ err = NoErr /\ record = None /\ homeId = 0
    /\ remote_sync_state = NoSyncState /\ local_sync_state = <<>>
    /\ todo = {} /\ cur = 0 /\ changed = <<>> /\ deleted = <<>>
    /\ changed_ids = {} /\ links = <<>> /\ idmaps = NoIdMaps /\ len_links = 0
    /\ calls = 0 /\ entry = "none"
    /\ calendars = <<>> /\ results = <<>> /\ names_since = NoNamesSince
    /\ remote_objects = NoRemoteObjects /\ components = <<>>
    /\ started = <<>> /\ completed = <<>> /\ runs = 0 /\ rwrites = 0
    /\ passDirty = FALSE /\ cleanPasses = 0 /\ objWrites = 0 /\ txnCreated = FALSE

\* the batching loops and _inTxn are looked at on their own, further down
BatchOff ==
    /\ bpc = "off" /\ bnames = <<>> /\ remaining = <<>> /\ windows = <<>>
    /\ battempts = 0 /\ bobjects = {}
TxnOff ==
    /\ tpc = "off" /\ tkw = {} /\ txnLog = <<>>
    /\ toutcome = "none" /\ tresult = "none"

Init ==
    /\ dirRecord \in {"missing", "thisServer", "otherServer"}
    \* the remote pod may have no home for the user
    /\ rhome \in BOOLEAN
    /\ rcal \in InitRCals
    /\ rnextObj = Cardinality(RemoteCalIds) * Cardinality(Names) + 1
    /\ ratt \in [RemoteAttIds -> {NoMd5, "x"}]
    /\ rlinks \in {{}} \cup {{[att |-> a, obj |-> o]} :
                               a \in {b \in RemoteAttIds : ratt[b] # NoMd5},
                               o \in RemoteObjIds(rcal) \cap
                                     {InitObjId(MinOf(RemoteCalIds), n) : n \in Names}}
    /\ InitLocal
    /\ InitSync
    /\ BatchOff
    /\ TxnOff

(***************************************************************************)
(* Running migrateHere.                                                    *)
(***************************************************************************)
\* a CrossPodHomeSync is made and migrateHere called; a run that failed may
\* be run again
Start ==
    /\ pc \in {"idle", "failed"}
    /\ runs < MaxRuns
    /\ entry' = "migrateHere"
    /\ pc' = "migrateHere" /\ phase' = 0 /\ err' = NoErr
    /\ record' = None /\ homeId' = 0
    /\ remote_sync_state' = NoSyncState /\ local_sync_state' = <<>>
    /\ todo' = {} /\ cur' = 0 /\ changed' = <<>> /\ deleted' = <<>>
    /\ changed_ids' = {} /\ links' = <<>> /\ idmaps' = NoIdMaps /\ len_links' = 0
    /\ started' = <<>> /\ completed' = <<>> /\ runs' = runs + 1
    /\ passDirty' = FALSE /\ cleanPasses' = 0 /\ objWrites' = 0
    /\ txnCreated' = FALSE
    /\ UNCHANGED <<dirRecord, calendars, results, names_since, remote_objects,
                   components, batchVars, txnVars, calls, remoteVars, localVars,
                   rwrites>>

\* migrateHere goes on to its next step, or returns
migrateHere ==
    /\ pc = "migrateHere"
    /\ IF phase = Len(MigrateHereSteps)
       THEN /\ pc' = "done"
            /\ UNCHANGED <<phase, started, passDirty, objWrites>>
       ELSE LET step == MigrateHereSteps[phase + 1] IN
            /\ phase' = phase + 1
            /\ pc' = EntryPc(step)
            /\ started' = started \o StartEvents(step)
            /\ passDirty' = IF step = "sync" THEN FALSE ELSE passDirty
            /\ objWrites' = IF step = "sync" THEN 0 ELSE objWrites
    /\ UNCHANGED <<dirRecord, stepVars, batchVars, txnVars, calls, len_links,
                   remoteVars, localVars, err, record, homeId, syncVars,
                   changed_ids, linkVars, completed, runs, rwrites, cleanPasses,
                   txnCreated>>

\* loadRecord without its two checks
LoadRecordErrorUnchecked == "none"

\* loadRecord: the directory lookup and its two checks
LoadRecordError ==
    CASE dirRecord = "missing" -> "DirectoryRecordNotFoundError"
      [] dirRecord = "thisServer" -> "ValueError"
      [] OTHER -> "none"

loadRecord ==
    /\ pc = "loadRecord"
    /\ LET e == LoadRecordError IN
       /\ pc' = IF e = "none" THEN "prepareCalendarHome" ELSE Propagate
       /\ err' = IF e = "none" THEN err ELSE Raised(e)
       /\ record' = IF dirRecord = "missing" THEN None ELSE dirRecord
    /\ UNCHANGED <<dirRecord, stepVars, batchVars, txnVars, calls, len_links,
                   remoteVars, localVars, phase, homeId, syncVars,
                   changed_ids, linkVars, len_links, histVars>>

\* prepareCalendarHome: the home keyed Migrating-<diruid>, created when absent
\* prepareCalendarHome creating a home on every call
PrepareHomeAlwaysCreates(homes) ==
    LET new == Cardinality(homes) + 1 IN
    [homes |-> homes \cup {[uid |-> migratingUid, id |-> new]}, id |-> new]

\* the home keyed migratingUid() is looked up, and created only when there is
\* none; the id of the one or the other is returned
PrepareHome(homes) ==
    IF HomeWithUID(homes, migratingUid) # 0
    THEN [homes |-> homes, id |-> HomeWithUID(homes, migratingUid)]
    ELSE LET new == Cardinality(homes) + 1 IN
         [homes |-> homes \cup {[uid |-> migratingUid, id |-> new]}, id |-> new]

prepareCalendarHome ==
    /\ pc = "prepareCalendarHome"
    /\ lhomes' = PrepareHome(lhomes).homes
    /\ homeId' = PrepareHome(lhomes).id
    /\ txnCreated' = TRUE
    /\ pc' = "getCalendarSyncList"
    /\ UNCHANGED <<dirRecord, stepVars, batchVars, txnVars, calls, len_links,
                   remoteVars, lhomeMeta, calVars, attVars, ldelegates,
                   lgroups, phase, err, record, syncVars, changed_ids,
                   linkVars, started, completed, runs, rwrites, passDirty,
                   cleanPasses, objWrites>>

\* getCalendarSyncList: remote id -> sync token of each owned remote calendar,
\* None when there is no remote home.  loadChildren() lists the calendars;
\* each owned one is then asked its token in a call of its own.
getCalendarSyncList ==
    /\ pc = "getCalendarSyncList"
    /\ txnCreated' = TRUE
    /\ LET owned == SetToSeq({c \in RemoteLoadChildren : rcal[c].owned}) IN
       IF rhome /\ owned # <<>>
       THEN /\ calendars' = owned
            /\ results' = <<>>
            /\ pc' = "syncToken"
            /\ UNCHANGED remote_sync_state
       ELSE /\ remote_sync_state' =
                  IF ~rhome THEN NoSyncState ELSE [none |-> FALSE, tok |-> <<>>]
            /\ pc' = "getSyncState"
            /\ UNCHANGED <<calendars, results>>
    /\ UNCHANGED <<dirRecord, entry, names_since, remote_objects, components, batchVars,
                   txnVars, calls, len_links, remoteVars, localVars, phase, err, record,
                   homeId,
                   local_sync_state, todo, cur, changed, deleted, changed_ids,
                   linkVars, started, completed, runs, rwrites, passDirty,
                   cleanPasses, objWrites>>

\* calendar.syncToken() of the next owned calendar; the conduit fails for a
\* calendar that is gone by now
syncToken ==
    /\ pc = "syncToken"
    /\ LET c == Head(calendars)
           rest == Tail(calendars)
           tok == [d \in DOMAIN results \cup {c} |->
                     IF d = c THEN rcal[c].token ELSE results[d]]
       IN
       IF RemoteChildMissing(c)
       THEN /\ pc' = Propagate
            /\ err' = Raised("RemoteFailure")
            /\ calendars' = <<>> /\ results' = <<>>
            /\ UNCHANGED remote_sync_state
       ELSE /\ err' = err
            /\ IF rest = <<>>
               THEN /\ remote_sync_state' = [none |-> FALSE, tok |-> tok]
                    /\ pc' = "getSyncState"
                    /\ calendars' = <<>> /\ results' = <<>>
               ELSE /\ calendars' = rest /\ results' = tok
                    /\ pc' = "syncToken"
                    /\ UNCHANGED remote_sync_state
    /\ UNCHANGED <<dirRecord, entry, names_since, remote_objects, components, batchVars,
                   txnVars, calls, len_links, remoteVars, localVars, phase, record,
                   homeId,
                   local_sync_state, todo, cur, changed, deleted, changed_ids,
                   linkVars, histVars>>

\* getSyncState finding no CalendarMigrationRecord
SyncStateOfNone(recs) == <<>>

\* getSyncState: the home's CalendarMigrationRecords keyed by remote id
SyncStateOf(recs) ==
    [c \in {r.remote : r \in recs} |->
        LET r == CHOOSE q \in recs : q.remote = c IN
        [local |-> r.local, token |-> r.token, isnew |-> FALSE]]

getSyncState ==
    /\ pc = "getSyncState"
    /\ local_sync_state' = SyncStateOf(calRecs)
    /\ pc' = "purgeLocal"
    /\ txnCreated' = TRUE
    /\ UNCHANGED <<dirRecord, stepVars, batchVars, txnVars, calls, len_links,
                   remoteVars, localVars, phase, err, record, homeId,
                   remote_sync_state, todo, cur, changed, deleted, changed_ids,
                   linkVars, started, completed, runs, rwrites, passDirty,
                   cleanPasses, objWrites>>

\* purgeLocal: the local calendars whose remote calendar is no longer listed
RECURSIVE PurgeCalendars(_, _)
PurgeCalendars(st, ls) ==
    IF ls = {} THEN st
    ELSE LET l == CHOOSE x \in ls : TRUE IN
         PurgeCalendars(IF LocalChildMissing(st.lcals, l) THEN st
                        ELSE PurgeCalendar(st, l),
                        ls \ {l})

\* purgeLocal finding no calendar to remove
PurgeLocalGoneNone == {}

\* set(local_sync_state.keys()) - set(remote_sync_state.keys())
PurgeLocalGone == DOMAIN local_sync_state \ DOMAIN remote_sync_state.tok

purgeLocal ==
    /\ pc = "purgeLocal"
    /\ txnCreated' = TRUE
    /\ IF remote_sync_state.none
       THEN \* None has no keys(): AttributeError, the transaction is aborted
            /\ pc' = Propagate
            /\ err' = Raised("AttributeError")
            /\ UNCHANGED <<calVars, llinks, objWrites, local_sync_state, todo>>
       ELSE LET st == PurgeCalendars(CalStore,
                         {local_sync_state[c].local : c \in PurgeLocalGone}) IN
            /\ lcals' = st.lcals /\ calRecs' = st.calRecs /\ objRecs' = st.objRecs
            /\ llinks' = st.llinks /\ objWrites' = st.writes
            /\ local_sync_state' =
                  Restrict(local_sync_state, DOMAIN local_sync_state \ PurgeLocalGone)
            /\ todo' = DOMAIN remote_sync_state.tok
            /\ pc' = "syncCalendar"
            /\ UNCHANGED <<err, lnextCal, lnextObj>>
    /\ UNCHANGED <<dirRecord, stepVars, batchVars, txnVars, calls, len_links,
                   remoteVars, lhomes, lhomeMeta, lnextAtt, attRecs, latt,
                   ldelegates, lgroups, phase, record, homeId,
                   remote_sync_state, cur, changed, deleted, changed_ids, linkVars,
                   started, completed, runs, rwrites, passDirty, cleanPasses>>

(***************************************************************************)
(* syncCalendar, one owned remote calendar at a time.                      *)
(***************************************************************************)
\* syncCalendar without the token test
AfterLocalRecordAlways(localToken, remoteToken) == "syncCalendarMetaData"

\* the token test of syncCalendar: equal tokens skip straight to updateSyncState
AfterLocalRecord(localToken, remoteToken) ==
    IF localToken # remoteToken THEN "syncCalendarMetaData" ELSE "updateSyncState"

\* a window one name longer than BATCH_SIZE
WindowOneMore(names) == Take(names, BATCH_SIZE + 1)

\* remaining[:self.BATCH_SIZE], and what `del remaining[:self.BATCH_SIZE]`
\* leaves
Window(names) == Take(names, BATCH_SIZE)
AfterWindow(names) == Drop(names, BATCH_SIZE)

\* purgeDeletedObjectsInBatches, then updateChangedObjectsInBatches, each
\* `while remaining`, then updateSyncState
AfterBatches(del, chg) ==
    IF del # <<>> THEN "purgeBatch"
    ELSE IF chg # <<>> THEN "updateBatch"
    ELSE "updateSyncState"

\* the loop of syncCalendarList and the head of syncCalendar
syncCalendar ==
    /\ pc = "syncCalendar"
    /\ IF todo = {}
       THEN /\ pc' = "syncCalendarHomeMetaData"
            /\ UNCHANGED <<todo, cur>>
       ELSE LET r == MinOf(todo) IN
            /\ cur' = r
            /\ todo' = todo \ {r}
            /\ pc' = IF r \notin DOMAIN local_sync_state THEN "newCalendar"
                     ELSE AfterLocalRecord(local_sync_state[r].token,
                                           remote_sync_state.tok[r])
    /\ UNCHANGED <<dirRecord, stepVars, batchVars, txnVars, calls, len_links,
                   remoteVars, localVars, phase, err, record, homeId,
                   remote_sync_state, local_sync_state, changed, deleted,
                   changed_ids, linkVars, len_links, histVars>>

\* newCalendar: an empty local calendar; its mapping is made in memory only
newCalendar ==
    /\ pc = "newCalendar"
    /\ txnCreated' = TRUE
    /\ lcals' = [l \in DOMAIN lcals \cup {lnextCal} |->
                   IF l = lnextCal
                   THEN [EmptyCalendar EXCEPT !.home = HomeWithUID(lhomes, migratingUid)]
                   ELSE lcals[l]]
    /\ lnextCal' = lnextCal + 1
    /\ local_sync_state' =
          [c \in DOMAIN local_sync_state \cup {cur} |->
              IF c = cur THEN [local |-> lnextCal, token |-> NoToken, isnew |-> TRUE]
              ELSE local_sync_state[c]]
    /\ pc' = AfterLocalRecord(NoToken, remote_sync_state.tok[cur])
    /\ UNCHANGED <<dirRecord, stepVars, batchVars, txnVars, calls, len_links,
                   remoteVars, lhomes, lhomeMeta, lnextObj, calRecs,
                   objRecs, attVars, ldelegates, lgroups, phase, err,
                   record, homeId, remote_sync_state, todo, cur, changed, deleted,
                   changed_ids, linkVars, started, completed, runs, rwrites,
                   passDirty, cleanPasses, objWrites>>

\* syncCalendarMetaData: copy the calendar's metadata, unless the remote
\* calendar is gone
syncCalendarMetaData ==
    /\ pc = "syncCalendarMetaData"
    /\ txnCreated' = TRUE
    /\ LET l == local_sync_state[cur].local
           e == IF ~rhome THEN "AttributeError"
                ELSE IF RemoteChildMissing(cur) THEN "none"
                ELSE IF LocalChildMissing(lcals, l) THEN "AttributeError"
                ELSE "none"
       IN
       /\ pc' = IF e = "none" THEN "findObjectsToSync" ELSE Propagate
       /\ err' = IF e = "none" THEN err ELSE Raised(e)
       /\ lcals' = IF e = "none" /\ ~RemoteChildMissing(cur)
                   THEN [lcals EXCEPT ![l].meta = cur]
                   ELSE lcals
    /\ UNCHANGED <<dirRecord, stepVars, batchVars, txnVars, calls, len_links,
                   remoteVars, lhomes, lhomeMeta, lnextCal, lnextObj,
                   calRecs, objRecs, attVars, ldelegates, lgroups,
                   phase, record, homeId, syncVars, changed_ids, linkVars, started,
                   completed, runs, rwrites, passDirty, cleanPasses, objWrites>>

\* findObjectsToSync: of the names reported changed, those the remote
\* calendar still has and whose md5 differs from the local one (or that are
\* not here)
ActualChanges(rc, lc, chg) ==
    LET remote_changes == RemoteObjectsWithNames(rc, chg)
        local_changes == LocalObjectsWithNames(lc, chg)
    IN {n \in remote_changes :
           n \notin local_changes \/ rc.objs[n].md5 # lc.objs[n].md5}

\* findObjectsToSync, up to remote_home.childWithID: a missing remote
\* calendar makes the step return None, which the caller cannot unpack into
\* (changed, deleted): TypeError
findObjectsToSync ==
    /\ pc = "findObjectsToSync"
    /\ txnCreated' = TRUE
    /\ LET e == IF ~rhome THEN "AttributeError"
                ELSE IF RemoteChildMissing(cur) THEN "TypeError"
                ELSE "none"
       IN
       /\ pc' = IF e = "none" THEN "resourceNamesSinceToken" ELSE Propagate
       /\ err' = IF e = "none" THEN err ELSE Raised(e)
    /\ UNCHANGED <<dirRecord, stepVars, batchVars, txnVars, calls, len_links,
                   remoteVars, localVars, phase, record, homeId,
                   syncVars, changed_ids,
                   linkVars, started, completed, runs, rwrites, passDirty,
                   cleanPasses, objWrites>>

\* remote_calendar.resourceNamesSinceToken(lastSyncToken); the conduit fails
\* for a calendar that is gone by now
resourceNamesSinceToken ==
    /\ pc = "resourceNamesSinceToken"
    /\ LET rec == local_sync_state[cur] IN
       IF RemoteChildMissing(cur)
       THEN /\ pc' = Propagate
            /\ err' = Raised("RemoteFailure")
            /\ UNCHANGED names_since
       ELSE /\ names_since' =
                  [changed |-> ChangedSinceToken(rcal[cur], rec.token),
                   deleted |-> DeletedSinceToken(rcal[cur], rec.token)]
            /\ pc' = "remoteChanges"
            /\ err' = err
    /\ UNCHANGED <<dirRecord, entry, calendars, results, remote_objects, components,
                   batchVars, txnVars, calls, len_links, remoteVars, localVars, phase,
                   record, homeId,
                   syncVars, changed_ids, linkVars, histVars>>

\* remote_calendar.objectResourcesWithNames(changed), the local objects of
\* these names, and the comparison of the two
remoteChanges ==
    /\ pc = "remoteChanges"
    /\ LET rec == local_sync_state[cur]
           e == IF RemoteChildMissing(cur) THEN "RemoteFailure"
                ELSE IF LocalChildMissing(lcals, rec.local) THEN "AttributeError"
                ELSE "none"
       IN
       IF e = "none"
       THEN LET chg == SetToSeq(ActualChanges(rcal[cur], lcals[rec.local],
                                              names_since.changed))
                del == SetToSeq(names_since.deleted)
            IN /\ changed' = chg
               /\ deleted' = del
               /\ pc' = AfterBatches(del, chg)
               /\ err' = err
       ELSE /\ pc' = Propagate
            /\ err' = Raised(e)
            /\ UNCHANGED <<changed, deleted>>
    /\ names_since' = NoNamesSince
    /\ UNCHANGED <<dirRecord, entry, calendars, results, remote_objects, components,
                   batchVars, txnVars, calls, len_links, remoteVars, localVars, phase,
                   record, homeId,
                   remote_sync_state, local_sync_state, todo, cur, changed_ids,
                   linkVars, histVars>>

\* purgeBatch: purge the local objects among the next BATCH_SIZE deleted names
purgeBatch ==
    /\ pc = "purgeBatch"
    /\ txnCreated' = TRUE
    /\ LET l == local_sync_state[cur].local
           purge_names == SeqToSet(Window(deleted))
       IN
       IF LocalChildMissing(lcals, l)
       THEN /\ pc' = Propagate
            /\ err' = Raised("AttributeError")
            /\ UNCHANGED <<lcals, objRecs, llinks, objWrites, deleted>>
       ELSE LET st == PurgeObjects(CalStore, l,
                                   LocalObjectsWithNames(lcals[l], purge_names)) IN
            /\ lcals' = st.lcals /\ objRecs' = st.objRecs /\ llinks' = st.llinks
            /\ objWrites' = st.writes
            /\ deleted' = AfterWindow(deleted)
            /\ pc' = AfterBatches(AfterWindow(deleted), changed)
            /\ err' = err
    /\ UNCHANGED <<dirRecord, stepVars, batchVars, txnVars, calls, len_links,
                   remoteVars, lhomes, lhomeMeta, lnextCal, lnextObj,
                   calRecs, lnextAtt, attRecs, latt, ldelegates, lgroups,
                   phase, record, homeId, remote_sync_state,
                   local_sync_state, todo, cur, changed, changed_ids, linkVars,
                   started, completed, runs, rwrites, passDirty, cleanPasses>>

\* an object stored the usual way: the store computes the hash of what it wrote
RecomputedMd5(remoteMd5) == "recomputed"

\* updateBatch creating objects without their migration record
ObjectRecordsForNone(rc, created, first) == {}

\* updateBatch stamps the remote md5 on the component it stores and sets
\* txn._migrating, so the store keeps that hash instead of computing its own
MigratedMd5(remoteMd5) == remoteMd5

\* the CalendarObjectMigrationRecord made for each object updateBatch creates;
\* the objects get the ids first, first + 1, ... in the order of `created`
ObjectRecordsFor(rc, created, first) ==
    {[remote |-> rc.objs[created[i]].id, local |-> first + i - 1] :
        i \in 1..Len(created)}

\* updateBatch on local calendar l for `names`, rc holding the remote objects
\* of these names: overwrite the objects found on both sides, create the ones
\* only remote (with their migration record), purge the ones only local
UpdateBatch(st, l, rc, names) ==
    LET lc == st.lcals[l]
        robjs == RemoteObjectsWithNames(rc, names)
        lobjs == LocalObjectsWithNames(lc, names)
        created == SetToSeq(robjs \ lobjs)
        idOf(n) == st.lnextObj + (CHOOSE i \in 1..Len(created) : created[i] = n) - 1
        recs == ObjectRecordsFor(rc, created, st.lnextObj)
        \* (home, remote id) is the key of CalendarObjectMigrationRecord
        dup == \E r \in recs : \E q \in st.objRecs : q.remote = r.remote
        st1 == [st EXCEPT
                  !.lcals = [st.lcals EXCEPT ![l].objs =
                     [n \in Names |->
                        IF n \in robjs \cap lobjs
                        THEN [id |-> lc.objs[n].id, md5 |-> MigratedMd5(rc.objs[n].md5),
                              data |-> rc.objs[n].data]
                        ELSE IF n \in robjs
                        THEN [id |-> idOf(n), md5 |-> MigratedMd5(rc.objs[n].md5),
                              data |-> rc.objs[n].data]
                        ELSE lc.objs[n]]],
                  !.lnextObj = st.lnextObj + Len(created),
                  !.objRecs = st.objRecs \cup recs,
                  !.writes = st.writes + Cardinality(robjs)]
    IN [ok |-> ~dup, st |-> PurgeObjects(st1, l, lobjs \ robjs)]

\* the remote objects updateBatch holds, as a calendar to look names up in
RemoteObjectsHeld(objs) == [NoRCal EXCEPT !.exists = TRUE, !.objs = objs]

\* the end of updateBatch, all components read: the local writes and the
\* commit
UpdateBatchWrites(objs) ==
    LET l == local_sync_state[cur].local
        up == UpdateBatch(CalStore, l, RemoteObjectsHeld(objs), SeqToSet(Window(changed)))
        st == IF up.ok THEN up.st ELSE CalStore
    IN
    /\ lcals' = st.lcals /\ lnextObj' = st.lnextObj /\ objRecs' = st.objRecs
    /\ llinks' = st.llinks /\ objWrites' = st.writes
    /\ changed' = IF up.ok THEN AfterWindow(changed) ELSE changed
    /\ pc' = IF up.ok THEN AfterBatches(<<>>, AfterWindow(changed)) ELSE Propagate
    /\ err' = IF up.ok THEN err ELSE Raised("IntegrityError")
    /\ remote_objects' = NoRemoteObjects /\ components' = <<>>

\* updateBatch, up to remote_home.childWithID: a missing remote calendar makes
\* the step return with nothing done
updateBatch ==
    /\ pc = "updateBatch"
    /\ txnCreated' = TRUE
    /\ LET early == rhome /\ RemoteChildMissing(cur) IN
       /\ changed' = IF early THEN AfterWindow(changed) ELSE changed
       /\ pc' = IF ~rhome THEN Propagate
                ELSE IF early THEN AfterBatches(<<>>, AfterWindow(changed))
                ELSE "remoteObjects"
       /\ err' = IF ~rhome THEN Raised("AttributeError") ELSE err
    /\ UNCHANGED <<dirRecord, stepVars, batchVars, txnVars, calls, len_links,
                   remoteVars, localVars,
                   phase, record, homeId, remote_sync_state, local_sync_state, todo,
                   cur, deleted, changed_ids, linkVars, started, completed, runs,
                   rwrites, passDirty, cleanPasses, objWrites>>

\* remote_calendar.objectResourcesWithNames(remaining), then the local
\* objects of these names; the conduit fails for a calendar that is gone by
\* now.  The objects come with their md5 as it is now, their data is read
\* later, one component() call each.  With no remote object to read, the
\* step goes on to its end.
remoteObjects ==
    /\ pc = "remoteObjects"
    /\ LET l == local_sync_state[cur].local
           names == RemoteObjectsWithNames(rcal[cur], SeqToSet(Window(changed)))
           objs == [n \in Names |->
                      IF n \in names THEN [rcal[cur].objs[n] EXCEPT !.data = NoMd5]
                      ELSE NoRObj]
           e == IF RemoteChildMissing(cur) THEN "RemoteFailure"
                ELSE IF LocalChildMissing(lcals, l) THEN "AttributeError"
                ELSE "none"
       IN
       IF e # "none"
       THEN /\ pc' = Propagate
            /\ err' = Raised(e)
            /\ UNCHANGED <<lcals, lnextObj, objRecs, llinks, objWrites, changed,
                           remote_objects, components>>
       ELSE IF names # {}
       THEN /\ remote_objects' = objs
            /\ components' = SetToSeq(names)
            /\ pc' = "component"
            /\ UNCHANGED <<lcals, lnextObj, objRecs, llinks, objWrites, changed, err>>
       ELSE UpdateBatchWrites(objs)
    /\ UNCHANGED <<dirRecord, entry, calendars, results, names_since, batchVars,
                   txnVars, calls, len_links, remoteVars, lhomes, lhomeMeta, lnextCal,
                   calRecs,
                   lnextAtt, attRecs, latt, ldelegates, lgroups,
                   phase, record, homeId, remote_sync_state, local_sync_state, todo,
                   cur, deleted, changed_ids, linkVars, histVarsButWrites>>

\* remote_object.component() of the next remote object, and the local write
\* of it; the conduit fails for an object that is gone by now.  The data is
\* what the remote object holds at this call, the md5 stamped on it is the
\* one remote_object was loaded with.  A new object
\* whose remote id has a CalendarObjectMigrationRecord already cannot get its
\* own.
component ==
    /\ pc = "component"
    /\ LET n == Head(components)
           rest == Tail(components)
           l == local_sync_state[cur].local
           gone == \/ RemoteChildMissing(cur)
                   \/ ~rcal[cur].objs[n].live
                   \/ rcal[cur].objs[n].id # remote_objects[n].id
           dup == /\ n \notin LocalObjectsWithNames(lcals[l], {n})
                  /\ \E q \in objRecs : q.remote = remote_objects[n].id
           e == IF gone THEN "RemoteFailure"
                ELSE IF dup THEN "IntegrityError"
                ELSE "none"
           read == [remote_objects EXCEPT ![n].data = rcal[cur].objs[n].data]
       IN
       IF e # "none"
       THEN /\ pc' = Propagate
            /\ err' = Raised(e)
            /\ remote_objects' = NoRemoteObjects /\ components' = <<>>
            /\ UNCHANGED <<lcals, lnextObj, objRecs, llinks, objWrites, changed>>
       ELSE IF rest # <<>>
       THEN /\ components' = rest
            /\ remote_objects' = read
            /\ UNCHANGED <<lcals, lnextObj, objRecs, llinks, objWrites, changed, err,
                           pc>>
       ELSE UpdateBatchWrites(read)
    /\ UNCHANGED <<dirRecord, entry, calendars, results, names_since, batchVars,
                   txnVars, calls, len_links, remoteVars, lhomes, lhomeMeta, lnextCal,
                   calRecs,
                   lnextAtt, attRecs, latt, ldelegates, lgroups,
                   phase, record, homeId, remote_sync_state, local_sync_state, todo,
                   cur, deleted, changed_ids, linkVars, histVarsButWrites>>

\* updateSyncState that inserts a new record but never updates a stored one
UpdateSyncStateRowsInsertOnly(recs, c, rec, newSyncToken) ==
    IF rec.isnew
    THEN recs \cup {[remote |-> c, local |-> rec.local, token |-> newSyncToken]}
    ELSE recs

\* updateSyncState: insert the new record with the token, or update the token
\* of the stored one
UpdateSyncStateRows(recs, c, rec, newSyncToken) ==
    IF rec.isnew
    THEN recs \cup {[remote |-> c, local |-> rec.local, token |-> newSyncToken]}
    ELSE {IF r.remote = c THEN [r EXCEPT !.token = newSyncToken] ELSE r : r \in recs}

updateSyncState ==
    /\ pc = "updateSyncState"
    /\ txnCreated' = TRUE
    /\ LET rec == local_sync_state[cur]
           tok == remote_sync_state.tok[cur]
           \* (home, remote id) is the key of CalendarMigrationRecord
           dup == rec.isnew /\ \E r \in calRecs : r.remote = cur
       IN
       /\ calRecs' = IF dup THEN calRecs ELSE UpdateSyncStateRows(calRecs, cur, rec, tok)
       /\ local_sync_state' =
             IF rec.isnew /\ ~dup
             THEN [local_sync_state EXCEPT ![cur] =
                      [local |-> rec.local, token |-> tok, isnew |-> FALSE]]
             ELSE local_sync_state
       /\ pc' = IF dup THEN Propagate ELSE "syncCalendar"
       /\ err' = IF dup THEN Raised("IntegrityError") ELSE err
    /\ UNCHANGED <<dirRecord, stepVars, batchVars, txnVars, calls, len_links,
                   remoteVars, lhomes, lhomeMeta, lcals, lnextCal,
                   lnextObj, objRecs, attVars, ldelegates, lgroups,
                   phase, record, homeId, remote_sync_state, todo, cur, changed,
                   deleted, changed_ids, linkVars, started, completed, runs, rwrites,
                   passDirty, cleanPasses, objWrites>>

\* syncCalendarHomeMetaData: copy the home's metadata from the remote home
syncCalendarHomeMetaData ==
    /\ pc = "syncCalendarHomeMetaData"
    /\ txnCreated' = TRUE
    /\ lhomeMeta' = (rhome \/ lhomeMeta)
    /\ pc' = IF rhome THEN "syncAttachmentTable" ELSE Propagate
    /\ err' = IF rhome THEN err ELSE Raised("AttributeError")
    /\ UNCHANGED <<dirRecord, stepVars, batchVars, txnVars, calls, len_links,
                   remoteVars, lhomes, calVars, attVars, ldelegates,
                   lgroups, phase, record, homeId, syncVars,
                   changed_ids, linkVars, started, completed, runs, rwrites,
                   passDirty, cleanPasses, objWrites>>

(***************************************************************************)
(* syncAttachments: the ATTACHMENT table in one transaction, then the data *)
(* of each changed attachment in a transaction of its own.                 *)
(***************************************************************************)
AttStore == [latt |-> latt, lnextAtt |-> lnextAtt, attRecs |-> attRecs, llinks |-> llinks]

\* syncAttachmentTable leaving what it finds removed on the remote pod
RemoveAttachmentsNone(st, removed) == st

\* ManagedAttachment.remove() of the local attachments `gone` (with their
\* mapping rows and links, by cascade) and record.delete() of the mapping
\* rows of `removed` whose attachment is not there
RemoveAttachments(st, removed) ==
    LET gone == {r.local : r \in {q \in st.attRecs : q.remote \in removed}} IN
    [st EXCEPT
        !.latt = Restrict(st.latt, DOMAIN st.latt \ gone),
        !.attRecs = {r \in st.attRecs : r.remote \notin removed /\ r.local \notin gone},
        !.llinks = {k \in st.llinks : k.att \notin gone}]

\* ManagedAttachment._create and AttachmentMigrationRecord.create for `added`
AddAttachments(st, added) ==
    LET as == SetToSeq(added)
        ids == {st.lnextAtt + i - 1 : i \in 1..Len(as)}
    IN [st EXCEPT
        !.latt = [a \in DOMAIN st.latt \cup ids |->
                    IF a \in ids THEN [md5 |-> NoMd5, data |-> NoMd5] ELSE st.latt[a]],
        !.lnextAtt = st.lnextAtt + Len(as),
        !.attRecs = st.attRecs \cup
                    {[remote |-> as[i], local |-> st.lnextAtt + i - 1] : i \in 1..Len(as)}]

AttLocalOf(recs, remoteId) == (CHOOSE r \in recs : r.remote = remoteId).local

\* syncAttachmentTable marking every mapped attachment, whatever its md5
UpdatedAttachmentsAll(st, updates) ==
    {AttLocalOf(st.attRecs, u) : u \in updates}

\* the mapped attachments whose md5 differs: copyRemote, and their data is due
UpdatedAttachments(st, updates) ==
    {AttLocalOf(st.attRecs, u) : u \in {v \in updates :
        ratt[v] # st.latt[AttLocalOf(st.attRecs, v)].md5}}

SyncAttachmentTable(st0) ==
    LET mapping == {r.remote : r \in st0.attRecs}
        removed == mapping \ RemoteAttachments
        added == RemoteAttachments \ mapping
        updates == mapping \cap RemoteAttachments
        st1 == RemoveAttachments(st0, removed)
        st2 == AddAttachments(st1, added)
        \* lmap[local_id] of a mapping whose attachment is not there: KeyError
        keyerr == \E u \in updates : AttLocalOf(st0.attRecs, u) \notin DOMAIN st0.latt
        upd == UpdatedAttachments(st0, updates)
    IN [ok |-> ~keyerr,
        st |-> [st2 EXCEPT !.latt =
                  [a \in DOMAIN st2.latt |->
                     IF a \in upd
                     THEN [st2.latt[a] EXCEPT !.md5 =
                             ratt[(CHOOSE r \in st0.attRecs : r.local = a).remote]]
                     ELSE st2.latt[a]]],
        data_ids |-> (DOMAIN st2.latt \ DOMAIN st1.latt) \cup upd]

syncAttachmentTable ==
    /\ pc = "syncAttachmentTable"
    /\ txnCreated' = TRUE
    /\ LET e == IF ~rhome THEN "AttributeError"
                ELSE IF ~SyncAttachmentTable(AttStore).ok THEN "KeyError"
                ELSE "none"
       IN
       IF e = "none"
       THEN LET r == SyncAttachmentTable(AttStore) IN
            /\ latt' = r.st.latt /\ lnextAtt' = r.st.lnextAtt
            /\ attRecs' = r.st.attRecs /\ llinks' = r.st.llinks
            /\ changed_ids' = r.data_ids
            /\ pc' = IF r.data_ids = {} THEN "syncReturn" ELSE "syncAttachmentData"
            /\ err' = err
       ELSE /\ pc' = Propagate
            /\ err' = Raised(e)
            /\ UNCHANGED <<attVars, changed_ids>>
    /\ UNCHANGED <<dirRecord, stepVars, batchVars, txnVars, calls, len_links,
                   remoteVars, lhomes, lhomeMeta, calVars, ldelegates,
                   lgroups, phase, record, homeId, syncVars, linkVars,
                   started, completed, runs, rwrites, passDirty, cleanPasses,
                   objWrites>>

\* syncAttachmentData of the next changed local id: read the remote data into
\* the local attachment, when the attachment and its mapping are there
syncAttachmentData ==
    /\ pc = "syncAttachmentData"
    /\ txnCreated' = TRUE
    /\ LET local_id == MinOf(changed_ids)
           records == {r \in attRecs : r.local = local_id}
           reads == local_id \in DOMAIN latt /\ records # {}
           remoteId == (CHOOSE r \in records : TRUE).remote
           \* with no remote home remote_home is None; the conduit fails for
           \* an attachment that is gone
           e == IF reads /\ ~rhome THEN "AttributeError"
                ELSE IF reads /\ ratt[remoteId] = NoMd5 THEN "RemoteFailure"
                ELSE "none"
       IN
       /\ latt' = IF reads /\ e = "none"
                  THEN [latt EXCEPT ![local_id] =
                          [md5 |-> ratt[remoteId], data |-> ratt[remoteId]]]
                  ELSE latt
       /\ changed_ids' = IF e = "none" THEN changed_ids \ {local_id} ELSE changed_ids
       /\ pc' = IF e # "none" THEN Propagate
                ELSE IF changed_ids \ {local_id} = {} THEN "syncReturn"
                ELSE "syncAttachmentData"
       /\ err' = IF e = "none" THEN err ELSE Raised(e)
    /\ UNCHANGED <<dirRecord, stepVars, batchVars, txnVars, calls, len_links,
                   remoteVars, lhomes, lhomeMeta, calVars, lnextAtt,
                   attRecs, llinks, ldelegates, lgroups, phase, record,
                   homeId, syncVars, linkVars, started, completed, runs, rwrites,
                   passDirty, cleanPasses, objWrites>>

\* sync() returns to migrateHere
syncReturn ==
    /\ pc = "syncReturn"
    /\ pc' = ReturnPc
    /\ completed' = Append(completed, "sync")
    /\ cleanPasses' = IF passDirty THEN 0 ELSE cleanPasses + 1
    /\ UNCHANGED <<dirRecord, stepVars, batchVars, txnVars, calls, len_links,
                   remoteVars, localVars, phase, err, record, homeId,
                   syncVars, changed_ids, linkVars, started, runs, rwrites,
                   passDirty, objWrites, txnCreated>>

(***************************************************************************)
(* finalSync: linkAttachments, then delegateReconcile.                     *)
(***************************************************************************)
getAttachmentLinks ==
    /\ pc = "getAttachmentLinks"
    /\ txnCreated' = TRUE
    /\ links' = IF rhome THEN SetToSeq(rlinks) ELSE links
    /\ pc' = IF rhome THEN "getAttachmentMappings" ELSE Propagate
    /\ err' = IF rhome THEN err ELSE Raised("AttributeError")
    /\ UNCHANGED <<dirRecord, stepVars, batchVars, txnVars, calls, len_links,
                   remoteVars, localVars, phase, record, homeId, syncVars,
                   changed_ids, idmaps, started, completed, runs, rwrites, passDirty,
                   cleanPasses, objWrites>>

\* remote id -> local id, from a table of migration records
IdMapOf(recs) ==
    [i \in {r.remote : r \in recs} |-> (CHOOSE r \in recs : r.remote = i).local]

\* linkAttachments after its last batch: finalSync goes on to delegateReconcile
AfterLinks(ls) ==
    IF ls # <<>> THEN "makeAttachmentLinks"
    ELSE IF entry = "linkAttachments" THEN ReturnPc
    ELSE "individualDelegateReconcile"

LinksDone(ls) == ls = <<>>

getAttachmentMappings ==
    /\ pc = "getAttachmentMappings"
    /\ txnCreated' = TRUE
    /\ idmaps' = [att |-> IdMapOf(attRecs), obj |-> IdMapOf(objRecs)]
    /\ len_links' = Len(links)
    /\ pc' = AfterLinks(links)
    /\ completed' = IF LinksDone(links) THEN Append(completed, "linkAttachments")
                    ELSE completed
    /\ started' = IF LinksDone(links) /\ entry # "linkAttachments"
                  THEN Append(started, "delegateReconcile") ELSE started
    /\ UNCHANGED <<dirRecord, stepVars, batchVars, txnVars, calls, remoteVars,
                   localVars, phase, err, record, homeId,
                   syncVars, changed_ids, links, runs, rwrites, passDirty,
                   cleanPasses, objWrites>>

\* makeAttachmentLinks rewriting the attachment id of a link only
MappedLinksAttachmentOnly(batch, maps) ==
    {[att |-> maps.att[k.att], obj |-> k.obj] : k \in batch}

\* makeAttachmentLinks: each remote link with its two ids mapped to local ids
MappedLinks(batch, maps) ==
    {[att |-> maps.att[k.att], obj |-> maps.obj[k.obj]] : k \in batch}

\* the links of a batch are taken one after the other: the two ids of a link
\* are looked up (KeyError) and the link is inserted (IntegrityError when it
\* is there already); the first link that raises ends the batch
RECURSIVE InsertLinks(_, _, _)
InsertLinks(batch, maps, stored) ==
    IF batch = <<>> THEN [e |-> "none", llinks |-> stored]
    ELSE LET k == Head(batch) IN
         IF k.att \notin DOMAIN maps.att \/ k.obj \notin DOMAIN maps.obj
         THEN [e |-> "KeyError", llinks |-> stored]
         ELSE IF MappedLinks({k}, maps) \cap stored # {}
         THEN [e |-> "IntegrityError", llinks |-> stored]
         ELSE InsertLinks(Tail(batch), maps, stored \cup MappedLinks({k}, maps))

makeAttachmentLinks ==
    /\ pc = "makeAttachmentLinks"
    /\ txnCreated' = TRUE
    /\ LET rest == Drop(links, LINK_BATCH_SIZE)
           done == InsertLinks(Take(links, LINK_BATCH_SIZE), idmaps, llinks)
           e == done.e
       IN
       /\ llinks' = IF e = "none" THEN done.llinks ELSE llinks
       /\ links' = IF e = "none" THEN rest ELSE links
       /\ pc' = IF e = "none" THEN AfterLinks(rest) ELSE Propagate
       /\ err' = IF e = "none" THEN err ELSE Raised(e)
       /\ completed' = IF e = "none" /\ LinksDone(rest)
                       THEN Append(completed, "linkAttachments") ELSE completed
       /\ started' = IF e = "none" /\ LinksDone(rest) /\ entry # "linkAttachments"
                     THEN Append(started, "delegateReconcile") ELSE started
    /\ UNCHANGED <<dirRecord, stepVars, batchVars, txnVars, calls, len_links,
                   remoteVars, lhomes, lhomeMeta, calVars, lnextAtt,
                   attRecs, latt, ldelegates, lgroups, phase, record,
                   homeId, syncVars, changed_ids, idmaps, runs, rwrites, passDirty,
                   cleanPasses, objWrites>>

\* the delegate assignments the remote pod dumps for the migrating user
RemoteIndividualDelegates == {[kind |-> "individual", delegate |-> "d1", groupID |-> 0]}
RemoteGroupDelegates == {[delegator |-> diruid, groupUID |-> "g1", groupID |-> 7]}
RemoteExternalDelegates == {[kind |-> "external", delegate |-> "x1", groupID |-> 0]}

\* record.insert(txn) of each row of a dump: a row that is there already
\* cannot be inserted again, and the step's transaction is aborted
InsertDelegates(rows, next) ==
    LET dup == rows \cap ldelegates # {} IN
    /\ ldelegates' = IF dup THEN ldelegates ELSE ldelegates \cup rows
    /\ pc' = IF dup THEN Propagate ELSE next
    /\ err' = IF dup THEN Raised("IntegrityError") ELSE err

individualDelegateReconcile ==
    /\ pc = "individualDelegateReconcile"
    /\ txnCreated' = TRUE
    /\ InsertDelegates(RemoteIndividualDelegates, "groupDelegateReconcile")
    /\ UNCHANGED <<dirRecord, stepVars, batchVars, txnVars, calls, len_links,
                   remoteVars, lhomes, lhomeMeta, calVars, attVars,
                   lgroups, phase, record, homeId, syncVars,
                   changed_ids, linkVars, started, completed, runs, rwrites,
                   passDirty, cleanPasses, objWrites>>

\* txn.groupByUID(uid): the local group, made when it is not there yet
RECURSIVE GroupsByUID(_, _)
GroupsByUID(groups, uids) ==
    IF uids = {} THEN groups
    ELSE LET u == CHOOSE x \in uids : TRUE IN
         GroupsByUID(IF u \in DOMAIN groups THEN groups
                     ELSE [g \in DOMAIN groups \cup {u} |->
                             IF g = u THEN Cardinality(DOMAIN groups) + 1
                             ELSE groups[g]],
                     uids \ {u})

\* a group delegate row inserted with the group id it came with
GroupDelegateRowAsDumped(r, groups) ==
    [kind |-> "group", delegate |-> r.groupUID, groupID |-> r.groupID]

\* delegator.groupID = local_group.groupID, then the insert
GroupDelegateRow(r, groups) ==
    [kind |-> "group", delegate |-> r.groupUID, groupID |-> groups[r.groupUID]]

groupDelegateReconcile ==
    /\ pc = "groupDelegateReconcile"
    /\ txnCreated' = TRUE
    /\ LET gs == GroupsByUID(lgroups, {r.groupUID : r \in RemoteGroupDelegates})
           rows == {GroupDelegateRow(r, gs) : r \in RemoteGroupDelegates}
       IN
       /\ InsertDelegates(rows, "externalDelegateReconcile")
       /\ lgroups' = IF rows \cap ldelegates # {} THEN lgroups ELSE gs
    /\ UNCHANGED <<dirRecord, stepVars, batchVars, txnVars, calls, len_links,
                   remoteVars, lhomes, lhomeMeta, calVars, attVars,
                   phase, record, homeId, syncVars, changed_ids,
                   linkVars, started, completed, runs, rwrites, passDirty,
                   cleanPasses, objWrites>>

externalDelegateReconcile ==
    /\ pc = "externalDelegateReconcile"
    /\ txnCreated' = TRUE
    /\ InsertDelegates(RemoteExternalDelegates, ReturnPc)
    /\ completed' = IF RemoteExternalDelegates \cap ldelegates # {} THEN completed
                    ELSE completed \o <<"delegateReconcile", "finalSync">>
    /\ UNCHANGED <<dirRecord, stepVars, batchVars, txnVars, calls, len_links,
                   remoteVars, lhomes, lhomeMeta, calVars, attVars,
                   lgroups, phase, record, homeId, syncVars,
                   changed_ids, linkVars, started, runs, rwrites, passDirty,
                   cleanPasses, objWrites>>

(***************************************************************************)
(* The three steps that are placeholders: a docstring and `pass` under     *)
(* @inlineCallbacks.  The call gives no generator, so it raises before     *)
(* anything is done: TypeError where inlineCallbacks checks for a          *)
(* generator, AttributeError where it does not and calls send() on None.   *)
(***************************************************************************)
NotAGenerator == {"TypeError", "AttributeError"}

Placeholder(step) ==
    /\ pc = step
    /\ pc' = Propagate
    /\ \E kind \in NotAGenerator : err' = Raised(kind)
    /\ UNCHANGED <<dirRecord, stepVars, batchVars, txnVars, calls, len_links, remoteVars,
                   localVars, phase, record, homeId, syncVars, changed_ids,
                   linkVars, histVars>>

disableRemoteHome == Placeholder("disableRemoteHome")

enableLocalHome == Placeholder("enableLocalHome")

removeRemoteHome == Placeholder("removeRemoteHome")

(***************************************************************************)
(* A step fails: the store, the conduit or the directory raises.  A step   *)
(* in a transaction of its own is aborted, so none of its writes is kept.  *)
(***************************************************************************)
Fail ==
    /\ pc \in FalliblePcs
    /\ pc' = Propagate
    /\ err' = Raised("StoreFailure")
    /\ txnCreated' = (txnCreated \/ pc \in TxnPcs \cup RemoteCallPcs)
    /\ StepLocalsGone
    /\ UNCHANGED <<dirRecord, batchVars, txnVars, calls, len_links, remoteVars,
                   localVars, phase, record, homeId, syncVars,
                   changed_ids, linkVars, started, completed, runs, rwrites,
                   passDirty, cleanPasses, objWrites>>

(***************************************************************************)
(* The remote user goes on writing to the remote home: nothing disables    *)
(* it.                                                                     *)
(***************************************************************************)
\* A remote write is placed right before a call that reads the remote home:
\* placed before any other step it gives the same run, since that step
\* neither reads nor writes what the remote write touches.
RemoteWritePcs ==
    {"getCalendarSyncList", "syncCalendarMetaData", "findObjectsToSync",
     "updateBatch", "syncAttachmentTable", "syncAttachmentData"}
    \cup RemoteCallPcs

RemoteWriteAllowed ==
    /\ rwrites < MaxRemoteWrites
    /\ pc \in RemoteWritePcs

RemoteWritten ==
    /\ rwrites' = rwrites + 1
    /\ passDirty' = TRUE
    /\ cleanPasses' = 0
    /\ UNCHANGED <<dirRecord, stepVars, batchVars, txnVars, calls, len_links, rhome,
                   ratt, localVars,
                   pc, phase, err, record, homeId, syncVars, changed_ids, linkVars,
                   started, completed, runs, objWrites, txnCreated>>

\* PUT of object n with content m: a new object, or new content
Put(c, n, m) ==
    /\ rcal[c].exists /\ rcal[c].owned
    /\ rcal[c].objs[n].md5 # m
    /\ LET rev == rcal[c].token + 1
           old == rcal[c].objs[n]
       IN
       /\ rcal' = [rcal EXCEPT ![c].token = rev,
                               ![c].objs[n] =
                                  [live |-> TRUE,
                                   id |-> IF old.live THEN old.id ELSE rnextObj,
                                   md5 |-> m, data |-> m, rev |-> rev]]
       /\ rnextObj' = IF old.live THEN rnextObj ELSE rnextObj + 1
    /\ UNCHANGED rlinks
    /\ RemoteWritten

\* DELETE of object n: a tombstone, and the object's attachment links go
Delete(c, n) ==
    /\ rcal[c].exists /\ rcal[c].owned
    /\ rcal[c].objs[n].live
    /\ LET rev == rcal[c].token + 1 IN
       rcal' = [rcal EXCEPT ![c].token = rev,
                            ![c].objs[n] = [NoRObj EXCEPT !.rev = rev]]
    /\ rlinks' = {k \in rlinks : k.obj # rcal[c].objs[n].id}
    /\ UNCHANGED rnextObj
    /\ RemoteWritten

\* DELETE of calendar c
RemoteDeleteCalendar(c) ==
    /\ RemoteWriteAllowed
    /\ rcal[c].exists /\ rcal[c].owned
    /\ rcal' = [rcal EXCEPT ![c].exists = FALSE]
    /\ rlinks' = {k \in rlinks : k.obj \notin {rcal[c].objs[n].id : n \in Names}}
    /\ UNCHANGED rnextObj
    /\ RemoteWritten

RemoteWrite ==
    \E c \in RemoteCalIds :
        \/ \E n \in Names, m \in Md5s : RemoteWriteAllowed /\ Put(c, n, m)
        \/ \E n \in Names : RemoteWriteAllowed /\ Delete(c, n)
        \/ RemoteDeleteCalendar(c)

\* The remote pod's revision cleanup of calendar c: the tombstones are
\* dropped and the tokens before the current one are no longer valid.  It is
\* placed right before the one step that asks for the names since a token.
RemoteCleanup(c) ==
    /\ pc = "resourceNamesSinceToken"
    /\ rcal[c].exists /\ rcal[c].owned
    /\ rcal[c].minrev < rcal[c].token
    /\ \E n \in Names : ~rcal[c].objs[n].live /\ rcal[c].objs[n].rev > 0
    /\ rcal' = [rcal EXCEPT ![c].minrev = rcal[c].token,
                            ![c].objs = [n \in Names |->
                                           IF rcal[c].objs[n].live THEN rcal[c].objs[n]
                                           ELSE NoRObj]]
    /\ UNCHANGED <<dirRecord, stepVars, batchVars, txnVars, calls, len_links, rhome,
                   rnextObj, ratt, rlinks,
                   localVars, pc, phase, err, record, homeId, syncVars,
                   changed_ids, linkVars, histVars>>

RevisionCleanup == \E c \in RemoteCalIds : RemoteCleanup(c)

SyncStep ==
    \/ loadRecord \/ prepareCalendarHome \/ getCalendarSyncList \/ getSyncState
    \/ syncToken \/ purgeLocal \/ syncCalendar \/ newCalendar
    \/ syncCalendarMetaData \/ findObjectsToSync \/ resourceNamesSinceToken
    \/ remoteChanges \/ purgeBatch \/ updateBatch \/ remoteObjects \/ component
    \/ updateSyncState \/ syncCalendarHomeMetaData \/ syncAttachmentTable
    \/ syncAttachmentData \/ syncReturn

(***************************************************************************)
(* A caller that holds a CrossPodHomeSync and calls sync() and             *)
(* linkAttachments() on it directly, one call after another, going on      *)
(* after a call that failed; nobody writes to the remote home meanwhile.   *)
(***************************************************************************)
CallAllowed == pc \in {"idle", "returned", "failed"} /\ calls < MaxCalls

CallSync ==
    /\ CallAllowed
    /\ calls' = calls + 1
    /\ pc' = EntryPc("sync") /\ phase' = 0 /\ err' = NoErr
    /\ remote_sync_state' = NoSyncState /\ local_sync_state' = <<>>
    /\ todo' = {} /\ cur' = 0 /\ changed' = <<>> /\ deleted' = <<>>
    /\ changed_ids' = {}
    /\ started' = Append(started, "sync")
    /\ passDirty' = FALSE /\ objWrites' = 0
    /\ entry' = "sync"
    /\ UNCHANGED <<dirRecord, calendars, results, names_since, remote_objects,
                   components, batchVars, txnVars, remoteVars, localVars, record,
                   homeId, linkVars,
                   len_links, completed, runs, rwrites, cleanPasses, txnCreated>>

\* linkAttachments needs self.homeId, which a sync() of the instance has set
CallLinkAttachments ==
    /\ CallAllowed
    /\ homeId # 0
    /\ calls' = calls + 1
    /\ pc' = "getAttachmentLinks" /\ phase' = 0 /\ err' = NoErr
    /\ links' = <<>> /\ idmaps' = NoIdMaps /\ len_links' = 0
    /\ started' = Append(started, "linkAttachments")
    /\ entry' = "linkAttachments"
    /\ UNCHANGED <<dirRecord, calendars, results, names_since, remote_objects,
                   components, batchVars, txnVars, remoteVars, localVars, record,
                   homeId, syncVars,
                   changed_ids, completed, runs, rwrites, passDirty, cleanPasses,
                   objWrites, txnCreated>>

\* the steps of sync() but purgeBatch: with nobody writing to the remote home
\* no name is ever reported deleted, and purgeDeletedObjectsInBatches has no
\* batch to run
NextCalls ==
    \/ CallSync \/ CallLinkAttachments
    \/ loadRecord \/ prepareCalendarHome \/ getCalendarSyncList \/ getSyncState
    \/ syncToken \/ purgeLocal \/ syncCalendar \/ newCalendar
    \/ syncCalendarMetaData \/ findObjectsToSync \/ resourceNamesSinceToken
    \/ remoteChanges \/ updateBatch \/ remoteObjects \/ component
    \/ updateSyncState \/ syncCalendarHomeMetaData \/ syncAttachmentTable
    \/ syncAttachmentData \/ syncReturn
    \/ getAttachmentLinks \/ getAttachmentMappings \/ makeAttachmentLinks
    \/ Fail

SpecCalls == Init /\ [][NextCalls]_vars

\* A remote user adds a managed attachment, replaces its content or removes
\* it (its links go with it), between the calls or right before a step that
\* reads the remote attachments.
RemoteAttachmentWrite ==
    /\ pc \in {"idle", "returned", "failed", "syncAttachmentTable", "syncAttachmentData"}
    /\ rwrites < MaxRemoteWrites
    /\ \E a \in RemoteAttIds, m \in Md5s \cup {NoMd5} :
          /\ ratt[a] # m
          /\ ratt' = [ratt EXCEPT ![a] = m]
          /\ rlinks' = IF m = NoMd5 THEN {k \in rlinks : k.att # a} ELSE rlinks
    /\ rwrites' = rwrites + 1
    /\ passDirty' = TRUE
    /\ cleanPasses' = 0
    /\ UNCHANGED <<dirRecord, stepVars, batchVars, txnVars, calls, len_links, rhome,
                   rcal, rnextObj,
                   localVars, pc, phase, err, record, homeId, syncVars,
                   changed_ids, linkVars, started, completed, runs, objWrites,
                   txnCreated>>

NextAttachments == NextCalls \/ RemoteAttachmentWrite

\* direct calls of sync() and linkAttachments() while the remote attachments
\* come, change and go
SpecAttachments == Init /\ [][NextAttachments]_vars

\* finalSync needs self.homeId too
CallFinalSync ==
    /\ CallAllowed
    /\ homeId # 0
    /\ calls' = calls + 1
    /\ pc' = EntryPc("finalSync") /\ phase' = 0 /\ err' = NoErr
    /\ links' = <<>> /\ idmaps' = NoIdMaps /\ len_links' = 0
    /\ started' = started \o StartEvents("finalSync")
    /\ entry' = "finalSync"
    /\ UNCHANGED <<dirRecord, calendars, results, names_since, remote_objects,
                   components, batchVars, txnVars, remoteVars, localVars, record,
                   homeId, syncVars,
                   changed_ids, completed, runs, rwrites, passDirty, cleanPasses,
                   objWrites, txnCreated>>

\* one of the three placeholder steps called directly
CallPlaceholder ==
    /\ CallAllowed
    /\ calls' = calls + 1
    /\ \E step \in {"disableRemoteHome", "enableLocalHome", "removeRemoteHome"} :
          /\ pc' = EntryPc(step)
          /\ started' = started \o StartEvents(step)
          /\ entry' = step
    /\ phase' = 0 /\ err' = NoErr
    /\ UNCHANGED <<dirRecord, calendars, results, names_since, remote_objects,
                   components, batchVars, txnVars, remoteVars, localVars, record,
                   homeId, syncVars,
                   changed_ids, linkVars, len_links, completed, runs, rwrites,
                   passDirty, cleanPasses, objWrites, txnCreated>>

\* a caller that calls sync(), linkAttachments(), finalSync() and the three
\* placeholder steps, the way migrateHere is to, or any other way
NextFinal ==
    \/ NextCalls \/ CallFinalSync \/ CallPlaceholder
    \/ individualDelegateReconcile \/ groupDelegateReconcile
    \/ externalDelegateReconcile
    \/ disableRemoteHome \/ enableLocalHome \/ removeRemoteHome

SpecFinal == Init /\ [][NextFinal]_vars

(***************************************************************************)
(* purgeDeletedObjectsInBatches and updateChangedObjectsInBatches on their *)
(* own, given a list of up to MaxNames names: the windows they hand to     *)
(* purgeBatch and updateBatch, each of which runs in its own transaction.  *)
(***************************************************************************)
\* the migration not running, the remote home empty
HomeSyncIdle ==
    /\ dirRecord = "otherServer"
    /\ rhome = TRUE /\ rcal = [c \in RemoteCalIds |-> NoRCal]
    /\ rnextObj = 1 /\ ratt = [a \in RemoteAttIds |-> NoMd5] /\ rlinks = {}
    /\ InitLocal
    /\ InitSync

InitBatch ==
    /\ HomeSyncIdle
    /\ TxnOff
    /\ bpc \in {"purgeDeletedObjectsInBatches", "updateChangedObjectsInBatches"}
    /\ \E n \in 0..MaxNames : bnames = [i \in 1..n |-> i]
    /\ remaining = bnames
    /\ windows = <<>>
    /\ battempts = 0
    \* the names to purge have their object here, the names to update not yet
    /\ bobjects = IF bpc = "purgeDeletedObjectsInBatches" THEN SeqToSet(bnames) ELSE {}

\* what a batch that commits leaves of the calendar's objects: purgeBatch
\* purges the objects of its names, updateBatch creates them
BatchEffect(loop, objs, names) ==
    IF loop = "purgeDeletedObjectsInBatches" THEN objs \ names ELSE objs \cup names

\* one turn of `while remaining`, the batch committing
BatchLoop ==
    /\ IF remaining # <<>>
       THEN /\ windows' = Append(windows, Window(remaining))
            /\ remaining' = AfterWindow(remaining)
            /\ battempts' = battempts + 1
            /\ bobjects' = BatchEffect(bpc, bobjects, SeqToSet(Window(remaining)))
            /\ bpc' = bpc
       ELSE /\ bpc' = "returned"
            /\ UNCHANGED <<remaining, windows, battempts, bobjects>>
    /\ UNCHANGED <<bnames, homeSyncVars, txnVars>>

purgeDeletedObjectsInBatches ==
    bpc = "purgeDeletedObjectsInBatches" /\ BatchLoop

updateChangedObjectsInBatches ==
    bpc = "updateChangedObjectsInBatches" /\ BatchLoop

NextBatch == purgeDeletedObjectsInBatches \/ updateChangedObjectsInBatches

\* the loops yield to nothing but their own batches: they keep running
SpecBatch == InitBatch /\ [][NextBatch]_vars /\ WF_vars(NextBatch)

\* a loop that went on to its next turn after a batch that failed
AfterFailedBatchGoesOn(loop) == loop

\* where a loop is after a batch that failed: the yield of the batch raises
\* the Failure _inTxn returned, and nothing in the loop catches it
AfterFailedBatch(loop) == "failed"

\* the store raises in a batch: _inTxn aborts the transaction of that batch,
\* so none of its writes is kept and the window is not taken off the list
BatchFail ==
    /\ bpc \in {"purgeDeletedObjectsInBatches", "updateChangedObjectsInBatches"}
    /\ remaining # <<>>
    /\ battempts' = battempts + 1
    /\ bpc' = AfterFailedBatch(bpc)
    /\ UNCHANGED <<bnames, remaining, windows, bobjects, homeSyncVars, txnVars>>

NextBatchFail == NextBatch \/ BatchFail

\* the batching loops with batches that may fail
SpecBatchFail == InitBatch /\ [][NextBatchFail]_vars

(***************************************************************************)
(* inTransactionWrapper on its own: calls of one wrapped operation, with   *)
(* or without a txn keyword argument.  The operation returns a result or   *)
(* raises; txn.commit() and txn.abort() are store calls and may raise too, *)
(* leaving the transaction open or, when the store cleans up, aborted.     *)
(***************************************************************************)
InitTxn ==
    /\ HomeSyncIdle
    /\ BatchOff
    /\ tpc = "idle" /\ tkw = {} /\ txnLog = <<>>
    /\ toutcome = "none" /\ tresult = "none"

NewTxn(by) == [by |-> by, state |-> "open"]

\* _inTxn running the operation in a transaction of its own whatever it is
\* given
UsesSuppliedTxnNever(kwargs) == FALSE

\* `if "txn" in kwargs`
UsesSuppliedTxn(kwargs) == "txn" \in kwargs

\* the transaction at the end of the log set to state st
EndTxn(log, st) == [log EXCEPT ![Len(log)].state = st]

\* the call: the caller's transaction when it supplies one, then
\* store.newTransaction unless a transaction was supplied
inTxnCall ==
    /\ tpc \in {"idle", "returned"}
    /\ Len(txnLog) < MaxTxns
    /\ \E kwargs \in {{}, {"txn"}} :
          LET log == IF "txn" \in kwargs THEN Append(txnLog, NewTxn("caller"))
                     ELSE txnLog
          IN /\ tkw' = kwargs
             /\ txnLog' = IF UsesSuppliedTxn(kwargs) THEN log
                          ELSE Append(log, NewTxn("_inTxn"))
    /\ tpc' = "operation" /\ toutcome' = "none" /\ tresult' = "none"
    /\ UNCHANGED <<homeSyncVars, batchVars>>

\* result = yield operation(self, txn, ...): with a supplied transaction the
\* result is returned and an exception goes to the caller as it is
inTxnOperation ==
    /\ tpc = "operation"
    /\ \E o \in {"result", "error"} :
          /\ toutcome' = o
          /\ IF UsesSuppliedTxn(tkw)
             THEN tpc' = "returned" /\ tresult' = o
             ELSE tpc' = (IF o = "result" THEN "commit" ELSE "abort")
                  /\ tresult' = tresult
    /\ UNCHANGED <<tkw, txnLog, homeSyncVars, batchVars>>

\* else: yield txn.commit(); returnValue(result)
inTxnCommit ==
    /\ tpc = "commit"
    /\ \/ txnLog' = EndTxn(txnLog, "committed") /\ tresult' = "result"
       \/ \E st \in {"open", "aborted"} :
             txnLog' = EndTxn(txnLog, st) /\ tresult' = "commitError"
    /\ tpc' = "returned"
    /\ UNCHANGED <<tkw, toutcome, homeSyncVars, batchVars>>

\* except Exception: f = Failure(); yield txn.abort(); returnValue(f)
inTxnAbort ==
    /\ tpc = "abort"
    /\ \/ txnLog' = EndTxn(txnLog, "aborted") /\ tresult' = "error"
       \/ txnLog' = EndTxn(txnLog, "open") /\ tresult' = "abortError"
    /\ tpc' = "returned"
    /\ UNCHANGED <<tkw, toutcome, homeSyncVars, batchVars>>

NextTxn == inTxnCall \/ inTxnOperation \/ inTxnCommit \/ inTxnAbort

SpecTxn == InitTxn /\ [][NextTxn]_vars

(***************************************************************************)
(* The wrapped steps as sync(), finalSync() and the methods they call      *)
(* make them: one `yield self.step(...)` after another, never with a txn   *)
(* keyword.  A yield whose step failed raises, and none of the callers     *)
(* catches: no further step is called.  The steps are taken in any order,  *)
(* which covers the orders the loops and tests of the callers give.        *)
(***************************************************************************)
\* callers that went on to their next step whatever the last one returned
NextStepCalledAlways(result) == TRUE

\* the next yield of the caller is reached when the last step returned a
\* result, and not when its yield raised
NextStepCalled(result) == result = "result"

stepCall ==
    /\ tpc = "idle" \/ (tpc = "returned" /\ NextStepCalled(tresult))
    /\ Len(txnLog) < MaxTxns
    /\ \E step \in TxnPcs : started' = Append(started, step)
    /\ tkw' = {}
    /\ txnLog' = IF UsesSuppliedTxn({}) THEN txnLog
                 ELSE Append(txnLog, NewTxn("_inTxn"))
    /\ tpc' = "operation" /\ toutcome' = "none" /\ tresult' = "none"
    /\ UNCHANGED <<dirRecord, stepVars, remoteVars, localVars, pc, phase, err, record,
                   homeId,
                   syncVars, changed_ids, linkVars, len_links, calls, completed,
                   runs, rwrites, passDirty, cleanPasses, objWrites, txnCreated,
                   batchVars>>

NextSteps == stepCall \/ inTxnOperation \/ inTxnCommit \/ inTxnAbort

SpecSteps == InitTxn /\ [][NextSteps]_vars

\* migrateHere ends in disableRemoteHome, which raises
Next ==
    \/ Start \/ migrateHere \/ SyncStep \/ disableRemoteHome \/ Fail \/ RemoteWrite

Spec == Init /\ [][Next]_vars

\* the migration with remote writes and the remote pod's revision cleanup
NextCleanup == Next \/ RevisionCleanup

SpecCleanup == Init /\ [][NextCleanup]_vars

\* DELETE of object n and PUT of a new object under the same name, both
\* between two steps of the migration: the name has a new resource id, and
\* the links of the deleted object are gone
RemoteRecreate(c, n, m) ==
    /\ RemoteWriteAllowed
    /\ rcal[c].exists /\ rcal[c].owned
    /\ rcal[c].objs[n].live
    /\ LET rev == rcal[c].token + 2 IN
       rcal' = [rcal EXCEPT ![c].token = rev,
                            ![c].objs[n] = [live |-> TRUE, id |-> rnextObj,
                                            md5 |-> m, data |-> m, rev |-> rev]]
    /\ rnextObj' = rnextObj + 1
    /\ rlinks' = {k \in rlinks : k.obj # rcal[c].objs[n].id}
    /\ RemoteWritten

RemoteRecreation ==
    \E c \in RemoteCalIds, n \in Names, m \in Md5s : RemoteRecreate(c, n, m)

\* the migration with remote writes, a delete and a new PUT of one name
\* among them
NextRecreate == Next \/ RemoteRecreation

SpecRecreate == Init /\ [][NextRecreate]_vars

(***************************************************************************)
(* A caller that calls sync() three times, as migrateHere is to: the       *)
(* remote user writes calendar objects while the first two passes run and  *)
(* no more once two passes have completed.  The store, the conduit and     *)
(* the directory do not fail of themselves: a pass that fails is not one   *)
(* of three that complete.                                                 *)
(***************************************************************************)
UserWrite ==
    /\ rwrites < MaxUserWrites
    /\ pc \in RemoteWritePcs
    /\ Len(completed) < 2
    /\ \E c \in RemoteCalIds, n \in Names :
          \/ \E m \in Md5s : Put(c, n, m)
          \/ Delete(c, n)

NextLastWriter == CallSync \/ SyncStep \/ UserWrite

SpecLastWriter == Init /\ [][NextLastWriter]_vars

(***************************************************************************)
(* Properties.                                                             *)
(***************************************************************************)
IsPrefix(s, t) == Len(s) <= Len(t) /\ \A i \in 1..Len(s) : s[i] = t[i]

Last(s) == s[Len(s)]

\* the order in which the phases are to start, and to complete
PhaseOrder ==
    <<"sync", "sync", "disableRemoteHome", "sync", "finalSync", "linkAttachments",
      "delegateReconcile", "enableLocalHome", "removeRemoteHome">>
CompletionOrder ==
    <<"sync", "sync", "disableRemoteHome", "sync", "linkAttachments",
      "delegateReconcile", "finalSync", "enableLocalHome", "removeRemoteHome">>
\* how many completions the i-th start of PhaseOrder has to wait for
\* (linkAttachments starts with finalSync, inside it)
NeededBefore == <<0, 1, 2, 3, 4, 4, 5, 7, 8>>

\* sync() has just returned to migrateHere without a failure
SyncJustReturned ==
    pc = "migrateHere" /\ completed # <<>> /\ Last(completed) = "sync"

OwnedRemote == {c \in RemoteCalIds : rcal[c].exists /\ rcal[c].owned}

\* C1: in every run of migrateHere the phases start in the order sync, sync,
\* disableRemoteHome, sync, finalSync (linkAttachments, then
\* delegateReconcile), enableLocalHome, removeRemoteHome, each only after
\* the one before it has completed, so linkAttachments only after the third
\* sync: what a run has started and what it has completed are prefixes of
\* that order, and a phase is started only when every phase before it has
\* completed.
C1_PhasesInOrder ==
    /\ IsPrefix(started, PhaseOrder)
    /\ IsPrefix(completed, CompletionOrder)
    /\ started # <<>> => Len(completed) >= NeededBefore[Len(started)]
    /\ Len(completed) <= Len(started)

C1_Witness ==
    /\ pc = "failed" /\ err.phase = 3
    /\ started = SubSeq(PhaseOrder, 1, 3) /\ completed = SubSeq(CompletionOrder, 1, 2)

\* C2: when a step of the first or the second sync() fails, migrateHere
\* stops: disableRemoteHome, finalSync, enableLocalHome and removeRemoteHome
\* are not invoked in that run.
C2_EarlyFailureStops ==
    err.phase \in {1, 2} =>
        /\ pc = "failed"
        /\ started = SubSeq(PhaseOrder, 1, err.phase)
        /\ llinks = {} /\ ldelegates = {}

C2_Witness == pc = "failed" /\ err.phase = 2 /\ err.kind = "StoreFailure"

\* the local calendar a remote calendar is mapped to holds the remote
\* calendar's objects, with their hashes, and no other object
MappedCopyOf(c) ==
    \E r \in calRecs :
        /\ r.remote = c /\ r.local \in DOMAIN lcals
        /\ \A n \in Names :
              IF rcal[c].objs[n].live
              THEN /\ lcals[r.local].objs[n] # NoLObj
                   /\ lcals[r.local].objs[n].md5 = rcal[c].objs[n].md5
              ELSE lcals[r.local].objs[n] = NoLObj

\* C5: with no directory record sync() fails with the record-not-found
\* error, with a record of this server it fails with the invalid-target
\* error (the directory lookup having answered: when the lookup itself
\* raises, sync() fails with what it raised); in every case before any
\* transaction is created, so nothing of the local store is created or
\* changed.
C5_LoadRecordFailsFirst ==
    dirRecord # "otherServer" =>
        /\ pc \in {"idle", "migrateHere", "loadRecord", "failed"}
        /\ pc = "failed" =>
              /\ err.phase = 1
              /\ err.kind \in {"StoreFailure",
                                IF dirRecord = "missing"
                                THEN "DirectoryRecordNotFoundError" ELSE "ValueError"}
              /\ err.kind = "StoreFailure" => record = None
        /\ ~txnCreated
        /\ lhomes = {} /\ lcals = <<>> /\ calRecs = {} /\ objRecs = {}
        /\ attRecs = {} /\ latt = <<>>

C5_Witness ==
    pc = "failed" /\ dirRecord = "missing"
    /\ err.kind = "DirectoryRecordNotFoundError" /\ ~txnCreated

\* C6: after a successful sync(), every owned remote calendar listed at the
\* start of that sync has exactly one CalendarMigrationRecord, which points
\* at an existing local calendar and holds the calendar's sync token (the
\* listed calendars being the owned calendars of the remote home when no
\* remote write came in between).
C6_RecordPerListedCalendar ==
    SyncJustReturned =>
        /\ ~remote_sync_state.none
        /\ \A c \in DOMAIN remote_sync_state.tok :
              /\ Cardinality({r \in calRecs : r.remote = c}) = 1
              /\ \A r \in calRecs :
                    r.remote = c => /\ r.local \in DOMAIN lcals
                                    /\ r.token = remote_sync_state.tok[c]
        /\ ~passDirty =>
              /\ DOMAIN remote_sync_state.tok = OwnedRemote
              /\ \A c \in OwnedRemote : remote_sync_state.tok[c] = rcal[c].token

C6_Witness ==
    /\ SyncJustReturned /\ Len(completed) = 2 /\ rwrites > 0
    /\ Cardinality(DOMAIN remote_sync_state.tok) > 1
    /\ \E c \in DOMAIN remote_sync_state.tok : remote_sync_state.tok[c] > 1

\* the local calendar of mapping r agrees with the remote calendar on object
\* n: the same hash when the remote object is there, no object when it is not
AgreesOn(r, n) ==
    IF rcal[r.remote].objs[n].live
    THEN /\ lcals[r.local].objs[n] # NoLObj
         /\ lcals[r.local].objs[n].md5 = rcal[r.remote].objs[n].md5
    ELSE lcals[r.local].objs[n] = NoLObj

\* C7: the stored lastSyncToken is set to the remote token only after every
\* purge batch and update batch of the calendar has committed, and in no run
\* is it ahead of the changes applied locally: what the remote calendar held
\* at the stored token is what the local calendar holds, for every object
\* not changed since.
C7_TokenNeverAhead ==
    /\ pc = "updateSyncState" => changed = <<>> /\ deleted = <<>>
    /\ \A r \in calRecs :
          \A n \in Names :
              rcal[r.remote].objs[n].rev <= r.token => AgreesOn(r, n)

\* the same, for the calendars that are still on the remote pod
C7_TokenNeverAheadOfLiveCalendar ==
    /\ pc = "updateSyncState" => changed = <<>> /\ deleted = <<>>
    /\ \A r \in calRecs :
          rcal[r.remote].exists =>
              \A n \in Names :
                  rcal[r.remote].objs[n].rev <= r.token => AgreesOn(r, n)

\* a sync() pass that follows a successful pass, no remote write since that
\* pass began
InSecondPass ==
    \/ /\ pc \notin {"migrateHere", "failed", "done", "idle"}
       /\ phase > 0 /\ MigrateHereSteps[phase] = "sync"
       /\ cleanPasses >= 1 /\ ~passDirty
    \/ pc = "migrateHere" /\ cleanPasses >= 2

\* C8: a sync() run right after a successful sync(), with no remote change,
\* writes no calendar object: every calendar's object sync is skipped.
C8_SecondPassWritesNothing ==
    InSecondPass =>
        /\ objWrites = 0
        /\ pc \notin {"newCalendar", "syncCalendarMetaData", "findObjectsToSync",
                      "resourceNamesSinceToken", "remoteChanges", "purgeBatch",
                      "updateBatch", "remoteObjects", "component"}

C8_Witness ==
    /\ pc = "migrateHere" /\ cleanPasses >= 2 /\ objWrites = 0
    /\ Cardinality(LocalObjectIds(lcals)) > 1

\* C9: after a successful sync() against an unchanging remote, every object
\* of an owned remote calendar is in the mapped local calendar under its
\* name, with the remote object's content hash.
C9_HashesMatch ==
    cleanPasses >= 1 =>
        \A c \in OwnedRemote :
            \E r \in calRecs :
                /\ r.remote = c /\ r.local \in DOMAIN lcals
                /\ \A n \in Names :
                      rcal[c].objs[n].live =>
                          /\ lcals[r.local].objs[n] # NoLObj
                          /\ lcals[r.local].objs[n].md5 = rcal[c].objs[n].md5

C9_Witness ==
    /\ cleanPasses >= 1 /\ rwrites > 0
    /\ \E c \in OwnedRemote : \E n \in Names :
          rcal[c].objs[n].live /\ rcal[c].objs[n].rev > 1

\* C10: every calendar object of the local home has a
\* CalendarObjectMigrationRecord with its id, and no such record names an
\* object that is not there.
C10_RecordPerObject ==
    /\ \A o \in LocalObjectIds(lcals) : \E r \in objRecs : r.local = o
    /\ \A r \in objRecs : r.local \in LocalObjectIds(lcals)

C10_Witness ==
    /\ objRecs # {}
    /\ lnextObj - FirstLocalObjId > Cardinality(LocalObjectIds(lcals))

\* linkAttachments has just returned to its caller without a failure
LinkAttachmentsReturned ==
    pc = "returned" /\ completed # <<>> /\ Last(completed) = "linkAttachments"

\* C11: once linkAttachments has completed, every remote attachment link
\* (ra, roc) has a local link whose attachment id is the local id the
\* attachment map gives for ra and whose object id is the local id the object
\* map gives for roc, and linkAttachments has returned the number of remote
\* links.
C11_LinksRebound ==
    LinkAttachmentsReturned =>
        /\ \A k \in rlinks :
              /\ k.att \in DOMAIN idmaps.att /\ k.obj \in DOMAIN idmaps.obj
              /\ \E r \in attRecs : r.remote = k.att /\ r.local = idmaps.att[k.att]
              /\ \E r \in objRecs : r.remote = k.obj /\ r.local = idmaps.obj[k.obj]
              /\ [att |-> idmaps.att[k.att], obj |-> idmaps.obj[k.obj]] \in llinks
        /\ len_links = Cardinality(rlinks)

C11_Witness ==
    /\ LinkAttachmentsReturned /\ len_links = 1
    /\ \E k \in rlinks : idmaps.att[k.att] # k.att /\ idmaps.obj[k.obj] # k.obj

\* how many times step has completed
TimesCompleted(step) ==
    Cardinality({i \in 1..Len(completed) : completed[i] = step})

\* the local links linkAttachments makes of the remote links
LinksOfRemote ==
    {[att |-> IdMapOf(attRecs)[k.att], obj |-> IdMapOf(objRecs)[k.obj]] : k \in rlinks}

\* C12: linkAttachments called again after it has completed, the remote home
\* unchanged, does not fail on a link that is already there and leaves the
\* link set of the first call.
C12_RelinkSameLinks ==
    TimesCompleted("linkAttachments") >= 1 =>
        /\ err.kind # "IntegrityError"
        /\ pc \in {"returned", "failed"} => llinks = LinksOfRemote

\* the steps of sync()
SyncPcs ==
    {"loadRecord", "prepareCalendarHome", "getCalendarSyncList", "getSyncState",
     "purgeLocal", "syncCalendar", "newCalendar", "syncCalendarMetaData",
     "findObjectsToSync", "purgeBatch", "updateBatch", "updateSyncState",
     "syncCalendarHomeMetaData", "syncAttachmentTable", "syncAttachmentData",
     "syncReturn"} \cup RemoteCallPcs

\* what a sync() leaves on the local pod: the home, its calendars, their
\* objects and hashes, the attachments, and the three kinds of migration
\* record
LocalState ==
    <<lhomes, lhomeMeta, lcals, latt, calRecs, objRecs, attRecs>>

\* C13: with no remote change, sync(); sync() leaves the local state of one
\* sync(): no step of a sync() that follows a successful sync() changes the
\* local calendars, objects, hashes, attachments or migration records.
C13_SecondSyncKeepsLocalState ==
    [][(cleanPasses >= 1 /\ pc \in SyncPcs) => UNCHANGED LocalState]_vars

C13_Witness ==
    /\ pc = "returned" /\ cleanPasses >= 2 /\ TimesCompleted("sync") >= 2
    /\ Cardinality(DOMAIN lcals) > 1 /\ objRecs # {} /\ attRecs # {}
    /\ \E a \in DOMAIN latt : latt[a].data # NoMd5

\* the lists of ws, one after the other
RECURSIVE Concat(_)
Concat(ws) == IF ws = <<>> THEN <<>> ELSE Head(ws) \o Concat(Tail(ws))

\* the windows so far are consecutive pieces of the name list, none empty and
\* none longer than BATCH_SIZE, and with what remains they make up the list:
\* every name is in one window or still to come
WindowsInv ==
    /\ \A i \in 1..Len(windows) : Len(windows[i]) \in 1..BATCH_SIZE
    /\ Concat(windows) \o remaining = bnames
    /\ bpc = "returned" => remaining = <<>>

\* C14: the two batching loops split their name list into consecutive windows
\* of at most BATCH_SIZE names, each window given to one purgeBatch or
\* updateBatch (one transaction), every name in exactly one window, and they
\* terminate.
C14_BatchWindows == []WindowsInv /\ <>(bpc = "returned")

C14_Witness ==
    /\ bpc = "returned" /\ Len(windows) = 3
    /\ Len(windows[1]) = BATCH_SIZE /\ Len(windows[3]) < BATCH_SIZE

\* C15: when _inTxn has returned, every transaction it created itself has
\* been ended, committed when the operation completed and aborted when it
\* failed; none is left open, also when commit or abort fails.
C15_OwnTxnAlwaysEnded ==
    tpc = "returned" =>
        /\ \A i \in 1..Len(txnLog) :
              txnLog[i].by = "_inTxn" => txnLog[i].state # "open"
        /\ ~UsesSuppliedTxn(tkw) =>
              txnLog[Len(txnLog)].state =
                 (IF toutcome = "result" THEN "committed" ELSE "aborted")

\* C16: a call that supplies a transaction makes _inTxn create none, the
\* supplied transaction is never committed or aborted by it, and the
\* operation's result or error is what the caller gets.
C16_SuppliedTxnUntouched ==
    /\ \A i \in 1..Len(txnLog) :
          txnLog[i].by = "caller" => txnLog[i].state = "open"
    /\ ("txn" \in tkw /\ tpc # "idle") =>
          /\ txnLog[Len(txnLog)].by = "caller"
          /\ tpc \in {"operation", "returned"}
          /\ tpc = "returned" => tresult = toutcome

C16_Witness ==
    /\ "txn" \in tkw /\ tpc = "returned" /\ tresult = "error"
    /\ \E i \in 1..Len(txnLog) : txnLog[i].state = "committed"

\* C17: before enableLocalHome the only local home of the user is the one
\* keyed Migrating-<diruid>, never one keyed by the directory uid;
\* prepareCalendarHome creates it once and gives the same id on every call,
\* and every local calendar sync() makes is in that home.
C17_OneMigratingHome ==
    /\ \A h \in lhomes : h.uid = "Migrating-user42"
    /\ Cardinality(lhomes) <= 1
    /\ homeId # 0 => lhomes = {[uid |-> "Migrating-user42", id |-> homeId]}
    /\ \A l \in DOMAIN lcals : lcals[l].home \in {h.id : h \in lhomes}

C17_Witness ==
    /\ pc = "returned" /\ TimesCompleted("sync") >= 2 /\ calls = 3
    /\ Cardinality(lhomes) = 1 /\ Cardinality(DOMAIN lcals) > 1

\* C18: a sync() that completes after an interrupted sync(), the remote home
\* unchanged, leaves what one uninterrupted sync() leaves: one local calendar
\* for each owned remote calendar and no other, holding the remote
\* calendar's objects with their hashes, and one migration record for each
\* calendar and object.
C18_RerunLeavesOneCopy ==
    (pc = "returned" /\ Last(completed) = "sync") =>
        /\ \A c \in OwnedRemote : MappedCopyOf(c)
        /\ \A l \in DOMAIN lcals : \E r \in calRecs : r.local = l
        /\ Cardinality(DOMAIN lcals) = Cardinality(OwnedRemote)
        /\ Cardinality(calRecs) = Cardinality(OwnedRemote)
        /\ Cardinality(objRecs) = Cardinality(LocalObjectIds(lcals))

\* the local calendar a remote calendar is mapped to holds the remote
\* calendar's objects and no other, each with the remote hash and the remote
\* content
SameContentAs(c) ==
    \E r \in calRecs :
        /\ r.remote = c /\ r.local \in DOMAIN lcals
        /\ \A n \in Names :
              IF rcal[c].objs[n].live
              THEN /\ lcals[r.local].objs[n] # NoLObj
                   /\ lcals[r.local].objs[n].md5 = rcal[c].objs[n].md5
                   /\ lcals[r.local].objs[n].data = rcal[c].objs[n].data
              ELSE lcals[r.local].objs[n] = NoLObj

\* the third sync() has returned, the remote user having stopped writing
\* when the second did
ThirdSyncReturned ==
    pc = "returned" /\ completed = <<"sync", "sync", "sync">>

\* C19: whatever writes of the remote user (object create, update, delete)
\* come in while the first two sync() passes run, once they have stopped
\* and the third sync() has completed, every owned remote calendar has its
\* object names and content hashes in the mapped local calendar: no object
\* is missing, left over or stale.
C19_ThirdSyncCatchesUp ==
    ThirdSyncReturned => \A c \in OwnedRemote : SameContentAs(c)

\* the same for the names and the stored hashes alone
C19_StoredHashesCaughtUp ==
    ThirdSyncReturned => \A c \in OwnedRemote : MappedCopyOf(c)

\* C20: a calendar whose stored token equals the remote token is skipped
\* entirely: none of its steps runs, there is no metadata sync, no
\* resourceNamesSinceToken, no batch, and no insert or update of its
\* CalendarMigrationRecord.
C20_EqualTokensSkipCalendar ==
    pc \in {"syncCalendarMetaData", "findObjectsToSync", "resourceNamesSinceToken",
            "remoteChanges", "purgeBatch", "updateBatch", "remoteObjects",
            "component", "updateSyncState"} =>
        local_sync_state[cur].token # remote_sync_state.tok[cur]

\* C21: a step that fails in the transaction _inTxn made for it hands the
\* failure to its caller and the running phase stops there: the run is
\* failed in the phase the step ran in, nothing is started, completed or
\* written to the CalendarMigrationRecords by that step or after it (a
\* failed metadata sync, findObjectsToSync, purge batch or update batch is
\* not followed by updateSyncState), and only a new run goes on from there.
C21_FailedStepHaltsPhase ==
    [][/\ (pc \in TxnPcs \cup RemoteCallPcs /\ err.kind = "none" /\ err'.kind # "none") =>
             /\ pc' = "failed" /\ err'.phase = phase
             /\ started' = started /\ completed' = completed
             /\ calRecs' = calRecs
       /\ pc = "failed" =>
             /\ err.kind # "none"
             /\ pc' = "migrateHere" /\ runs' = runs + 1 /\ started' = <<>>]_vars

C21_Witness ==
    /\ pc = "failed" /\ err.kind = "StoreFailure"
    /\ cur \in DOMAIN local_sync_state /\ local_sync_state[cur].isnew
    /\ changed # <<>>
    /\ ~\E r \in calRecs : r.remote = cur

\* what the batches in ws leave of the objects objs, one after the other
RECURSIVE EffectOf(_, _, _)
EffectOf(loop, objs, ws) ==
    IF ws = <<>> THEN objs
    ELSE EffectOf(loop, BatchEffect(loop, objs, SeqToSet(Head(ws))), Tail(ws))

\* the objects of the calendar before the loop ran
ObjectsBefore(loop) ==
    IF loop = "purgeDeletedObjectsInBatches" THEN SeqToSet(bnames) ELSE {}

\* C22: when batch k of a purge or update loop fails, the loop ends there:
\* batches 1..k-1 are the ones committed and what they wrote is in place
\* unchanged, nothing of batch k is kept (its names are still on the list and
\* their objects as they were), and no batch after k is called.
C22_FailedBatchOnly ==
    /\ battempts \in {Len(windows), Len(windows) + 1}
    /\ battempts > Len(windows) <=> bpc = "failed"
    /\ bpc = "failed" =>
          /\ Concat(windows) \o remaining = bnames
          /\ remaining # <<>>
          /\ \E loop \in {"purgeDeletedObjectsInBatches",
                          "updateChangedObjectsInBatches"} :
                /\ bobjects = EffectOf(loop, ObjectsBefore(loop), windows)
                /\ bobjects = BatchEffect(loop, ObjectsBefore(loop),
                                          SeqToSet(Concat(windows)))
                /\ BatchEffect(loop, bobjects, SeqToSet(Window(remaining))) # bobjects

\* the third batch of an update loop failed, two batches committed before it
C22_Witness ==
    /\ bpc = "failed" /\ battempts = 3 /\ Len(windows) = 2
    /\ Cardinality(bobjects) = 2 * BATCH_SIZE
    /\ Len(remaining) = 1

\* C23: a remote calendar that is gone when syncCalendarMetaData,
\* findObjectsToSync or updateBatch looks for it makes the step return
\* early, and the sync() it is part of does not fail because of it.
C23_GoneCalendarSkipped ==
    ~(/\ pc = "failed" /\ err.kind = "TypeError"
      /\ cur \in RemoteCalIds /\ RemoteChildMissing(cur))

\* C24: when the conduit has no resource id for the remote home, no step
\* that builds the remote home proxy fails because of it, and none writes
\* locally.
C24_NoRemoteHomeIsNoOp ==
    ~rhome =>
        /\ err.kind # "AttributeError"
        /\ lcals = <<>> /\ latt = <<>> /\ llinks = {} /\ ~lhomeMeta

\* C25: a calendar whose stored token the remote pod reports as invalid is
\* compared in full: when its batches are done (updateSyncState is next) and
\* nobody wrote to the remote home during the pass, the local calendar holds
\* the names of the remote calendar and no other, each with the remote hash.
C25_InvalidTokenFullRediff ==
    (/\ pc = "updateSyncState" /\ ~passDirty
     /\ rcal[cur].exists
     /\ TokenInvalid(rcal[cur], local_sync_state[cur].token)) =>
        \A n \in Names :
            AgreesOn([remote |-> cur, local |-> local_sync_state[cur].local], n)

\* the steps of a sync() pass that come after purgeLocal
AfterPurgeLocalPcs == SyncPcs \ {"loadRecord", "prepareCalendarHome",
                                 "getCalendarSyncList", "syncToken", "getSyncState",
                                 "purgeLocal"}

\* C26: once purgeLocal has run in a pass, and before the first calendar of
\* the pass is synchronised, every CalendarMigrationRecord is for a calendar
\* the remote pod listed as owned in this pass and its local calendar is
\* there: the local calendars of the others were purged and their records
\* are gone, and none comes back before the pass ends.
C26_UnlistedCalendarsPurged ==
    (pc \in AfterPurgeLocalPcs /\ ~remote_sync_state.none) =>
        /\ \A r \in calRecs :
              /\ r.remote \in DOMAIN remote_sync_state.tok
              /\ r.local \in DOMAIN lcals
        /\ DOMAIN local_sync_state \subseteq DOMAIN remote_sync_state.tok
        /\ \A c \in DOMAIN local_sync_state :
              local_sync_state[c].local \in DOMAIN lcals

\* a calendar that was copied and recorded has been deleted on the remote
\* pod, and purgeLocal of the next pass has just removed it
C26_Witness ==
    /\ pc = "syncCalendar" /\ TimesCompleted("sync") >= 1
    /\ todo = DOMAIN remote_sync_state.tok
    /\ \E c \in RemoteCalIds :
          /\ ~rcal[c].exists /\ rcal[c].owned
          /\ ~\E r \in calRecs : r.remote = c
    /\ Cardinality(DOMAIN lcals) < lnextCal - 1

\* the local attachments that are mapped to a remote attachment with another
\* md5
MappedWithOtherMd5 ==
    {r.local : r \in {q \in attRecs : /\ q.remote \in RemoteAttachments
                                      /\ q.local \in DOMAIN latt
                                      /\ latt[q.local].md5 # ratt[q.remote]}}

\* C27: what syncAttachmentTable returns for data transfer is the local ids
\* of the attachments it has just created, each for a remote attachment that
\* had no mapping, and the local ids of the mapped attachments whose md5 was
\* not the remote one, and no other id; the data of an attachment is written
\* only by syncAttachmentData, after the table step, and only for an id that
\* was returned.
C27_DataIdsExact ==
    [][/\ (pc = "syncAttachmentTable" /\ pc' \in {"syncAttachmentData", "syncReturn"}) =>
             /\ changed_ids' = (DOMAIN latt' \ DOMAIN latt) \cup MappedWithOtherMd5
             /\ \A a \in DOMAIN latt' \ DOMAIN latt :
                   \E r \in attRecs' \ attRecs :
                       /\ r.local = a
                       /\ r.remote \in RemoteAttachments \ {q.remote : q \in attRecs}
       /\ \A a \in DOMAIN latt \cap DOMAIN latt' :
             latt'[a].data # latt[a].data =>
                 pc = "syncAttachmentData" /\ a \in changed_ids
       /\ pc = "syncAttachmentData" => changed_ids' \subseteq changed_ids]_vars

\* the table step has marked a mapped attachment whose md5 was not the
\* remote one: it has the remote md5 now, and its data is still to come
C27_Witness ==
    /\ pc = "syncAttachmentData"
    /\ \E a \in changed_ids :
          a \in DOMAIN latt /\ latt[a].md5 # NoMd5 /\ latt[a].data = NoMd5

\* C28: when syncAttachmentTable has committed, the remote ids of the
\* AttachmentMigrationRecords are the ids of the remote attachments: each
\* remote attachment has one record, whose local attachment is there, and
\* of a record whose remote attachment is gone neither the row nor the local
\* attachment is left.
C28_MappingMatchesRemote ==
    [][(pc = "syncAttachmentTable" /\ pc' \in {"syncAttachmentData", "syncReturn"}) =>
          /\ {r.remote : r \in attRecs'} = RemoteAttachments
          /\ \A a \in RemoteAttachments :
                /\ Cardinality({r \in attRecs' : r.remote = a}) = 1
                /\ \A r \in attRecs' : r.remote = a => r.local \in DOMAIN latt'
          /\ \A r \in attRecs :
                r.remote \notin RemoteAttachments =>
                    r \notin attRecs' /\ r.local \notin DOMAIN latt']_vars

\* a sync() has removed the local attachment and the record of an attachment
\* that is gone on the remote pod
C28_Witness ==
    /\ pc = "returned" /\ Last(completed) = "sync"
    /\ lnextAtt > 1 /\ latt = <<>> /\ attRecs = {}
    /\ RemoteAttachments = {}

\* the transactions _inTxn made that are neither committed nor aborted
OpenTxns == {i \in 1..Len(txnLog) : txnLog[i].by = "_inTxn" /\ txnLog[i].state = "open"}

\* C29: of the transactions the steps of a migration run in, at most one is
\* open at any time: when a step's transaction is created, the transaction
\* of every step before it has been committed or aborted, and a step has one
\* transaction only.
C29_OneOpenTxn ==
    /\ Cardinality(OpenTxns) <= 1
    /\ \A i \in 1..Len(txnLog) - 1 : txnLog[i].state \in {"committed", "aborted"}
    /\ Len(txnLog) = Len(started)
    /\ tpc \in {"operation", "commit", "abort"} => OpenTxns = {Len(txnLog)}

\* the third step runs in its transaction, those of the two steps before it
\* are committed
C29_Witness ==
    /\ Len(txnLog) = 3 /\ tpc = "commit"
    /\ txnLog[1].state = "committed" /\ txnLog[2].state = "committed"
    /\ txnLog[3].state = "open"
    /\ started = <<"newCalendar", "updateBatch", "updateSyncState">>

DelegateRows(kind) == {d \in ldelegates : d.kind = kind}

\* C30: delegateReconcile inserts the individual, then the group, then the
\* external delegate rows, each kind in a step of its own; a step that fails
\* inserts nothing and leaves the rows of the steps before it in place, and
\* a group row carries the id of the local group that has the directory uid
\* of the remote group, not the id the group has on the remote pod.
C30_DelegateSubSteps ==
    [][/\ pc = "groupDelegateReconcile" =>
             /\ DelegateRows("individual") = RemoteIndividualDelegates
             /\ DelegateRows("group") = {} /\ DelegateRows("external") = {}
       /\ pc = "externalDelegateReconcile" =>
             /\ DelegateRows("individual") = RemoteIndividualDelegates
             /\ Cardinality(DelegateRows("group")) = Cardinality(RemoteGroupDelegates)
             /\ DelegateRows("external") = {}
       /\ (/\ pc \in {"individualDelegateReconcile", "groupDelegateReconcile",
                      "externalDelegateReconcile"}
           /\ err'.kind # "none") =>
             pc' = "failed" /\ ldelegates' = ldelegates /\ lgroups' = lgroups
       /\ \A d \in DelegateRows("group") :
             /\ d.delegate \in DOMAIN lgroups
             /\ d.groupID = lgroups[d.delegate]
             /\ \A r \in RemoteGroupDelegates :
                   r.groupUID = d.delegate => d.groupID # r.groupID]_vars

\* the external step failed: the individual and the group rows are in place
C30_Witness ==
    /\ pc = "failed" /\ err.kind = "StoreFailure"
    /\ DelegateRows("individual") # {} /\ DelegateRows("group") # {}
    /\ DelegateRows("external") = {}

\* C31: when a sync() during which nobody wrote to the remote home has
\* returned, every object of an owned remote calendar has a
\* CalendarObjectMigrationRecord under its remote id, and the record's local
\* id is the id of the object of that name in the mapped local calendar.
C31_RecordForCurrentRemoteId ==
    (SyncJustReturned /\ ~passDirty) =>
        \A c \in OwnedRemote : \A n \in Names :
            rcal[c].objs[n].live =>
                \E r \in objRecs : \E q \in calRecs :
                    /\ r.remote = rcal[c].objs[n].id
                    /\ q.remote = c /\ q.local \in DOMAIN lcals
                    /\ r.local = lcals[q.local].objs[n].id

====
